---------------------------- MODULE Spec2Model ----------------------------
(***************************************************************************)
(* Model of the e-commerce crawler: the scraper worker (ScraperThread.run  *)
(* driving AliExpressScraper / AmazonScraper), the controller handlers of  *)
(* MainWindow (run, resume, stop), and the pure pricing / enumeration      *)
(* functions.                                                              *)
(***************************************************************************)
EXTENDS Integers, Sequences, FiniteSets, TLC

(***************************************************************************)
(* Bounds of the model.                                                    *)
(***************************************************************************)
MaxTargets == 2
MaxCombos == 2
MaxRows == 2
MaxOpts == 2
MaxPriceLen == 3
MaxQuotes == 3
MaxStrategies == 3
MaxUrlParts == 3
MaxImages == 2
MaxResultRows == 3
MaxBullets == 2
MaxRuns == 2

\* config.PRICE_DISCOUNT = 0.95, as the fraction PRICE_DISCOUNT_NUM / PRICE_DISCOUNT_DEN
PRICE_DISCOUNT_NUM == 95
PRICE_DISCOUNT_DEN == 100

VARIABLES
    mode,               \* ScraperThread.mode: "silent", "detailed" or "debug"
    source,             \* ScraperThread.source: "aliexpress" or "amazon"
    scrape_type,        \* ScraperThread.scrape_type: "single" or "search"
    ctl,                \* UI thread: "idle", or "stopping" inside _on_stop_scraper's wait
    thread,             \* QThread state: "none", "running", "finished", "terminated"
    pc,                 \* position of the worker inside run()
    ret,                \* position the CAPTCHA gate returns to
    resume_event,       \* threading.Event flag shared by controller and worker
    scraper,            \* self.scraper has been assigned (session created)
    driverAlive,        \* the driver session is open
    quitCalls,          \* number of driver.quit() calls made so far
    exc,                \* an exception is propagating out of the scraper
    scraping_completed, \* local flag of run()
    signals,            \* custom signals emitted by run()
    targets,            \* number of links selected by scrape_search_results
    idx,                \* index of the target being processed
    started,            \* targets whose pipeline was entered
    saved,              \* targets whose ProductRecord was written to disk
    nCombos,            \* number of SKU combinations of the current target
    comboIdx,           \* combination being probed
    stopRequested,      \* _on_stop_scraper has been invoked
    stopTarget,         \* target in flight when stop was requested (0: none)
    awaitingResume,     \* a challenge was detected and no set() came since
    calledWhileAwaiting,\* a driver call was made while awaitingResume
    gateEvals,          \* indicator evaluations in the current gate invocation
    captcha_handled,    \* return value of the last CAPTCHA check
    stages,             \* stages performed so far for the target in flight
    search_failed,      \* the competitor search of the target in flight raised
    found_prices,       \* amazon_prices: the quotes collected for the target
    data_stats,         \* the price fields of data (<<>>: not computed)
    write_failed,       \* the write of the target's JSON file failed
    page_state,         \* since the last gate check: "checked", "moved", "read_unchecked"
    scraper_thread,     \* MainWindow.scraper_thread: 0 (None) or the number of the ScraperThread held
    scraper_resume_event, \* MainWindow.scraper_resume_event: 0 (None) or the number of the Event held
    orphaned,           \* a session opened by an earlier worker was still open when its successor was created
    stopPc              \* where _on_stop_scraper found the worker ("none": not invoked)

dataVars == <<search_failed, found_prices, data_stats, write_failed>>

runVars == <<mode, source, scrape_type, ctl, thread, pc, ret, resume_event, scraper,
             driverAlive, quitCalls, exc, scraping_completed, signals, targets,
             idx, started, saved, nCombos, comboIdx, stopRequested, stopTarget,
             awaitingResume, calledWhileAwaiting, gateEvals, captcha_handled,
             stages, dataVars, page_state, scraper_thread,
             scraper_resume_event, orphaned, stopPc>>

\* State of one call of _extract_sku_combinations.
VARIABLES
    sku_rows,           \* the page: per "div[data-sku-row]" the names of its options
    sku_combinations,   \* the list returned by _extract_sku_combinations
    enumPc              \* "idle", "page" (before the call), "done" (after)

enumVars == <<sku_rows, sku_combinations, enumPc>>

\* State of one call of MainWindow._calculate_final_price.
VARIABLES
    ali_rec_price,      \* argument: the recommended price string
    amazon_min_price,   \* argument: the competitor minimum price string
    final_price,        \* the string returned
    finalPc             \* "idle", "args" (before the call), "done" (after)

finalVars == <<ali_rec_price, amazon_min_price, final_price, finalPc>>

\* State of one call of calculate_amazon_price_stats.
VARIABLES
    amazon_prices,      \* argument: the quotes in the mapping's iteration order
    aliexpress_price,   \* argument: the product's own price string
    price_stats,        \* the dict returned
    statsPc             \* "idle", "args" (before the call), "done" (after)

statsVars == <<amazon_prices, aliexpress_price, price_stats, statsPc>>

\* State of the calls of the two price parsers on one text.
VARIABLES
    price_text,          \* argument: the price text
    float_price,        \* value returned by parse_price_to_float
    ui_price,           \* value returned by MainWindow._parse_price
    parsed              \* the parsers that have returned: "scraper", "ui"

parseVars == <<price_text, float_price, ui_price, parsed>>

\* State of one resolution of the current price by AmazonScraper._extract_prices.
VARIABLES
    price_selectors,    \* the page: per selector of the list, what its lookup yields
    current_price,      \* the price text resolved
    lookups,            \* number of find_elements calls made by the loop
    resolvePc           \* "idle", "page" (before the call), "done" (after)

resolveVars == <<price_selectors, current_price, lookups, resolvePc>>

\* State of the applications of an image-URL normalizer to one reference.
VARIABLES
    raw_src,            \* the raw reference read from the page
    image_site,         \* "aliexpress": clean_image_url, "amazon": clean_amazon_image_url
    clean_srcs          \* the results of the successive applications

normVars == <<raw_src, image_site, clean_srcs>>

\* State of one extraction of the product-level fields of a page.
VARIABLES
    field_site,         \* the scraper: "aliexpress" or "amazon"
    field_page,         \* the page: what the lookups of each field yield
    data_fields,        \* the fields of data written by the extraction
    fieldPc             \* "idle", "page" (before the extraction), "done" (after)

fieldVars == <<field_site, field_page, data_fields, fieldPc>>

\* State of one pass of search_amazon_prices_with_driver over the result rows.
VARIABLES
    result_rows,        \* the page: the rows found, in page order
    max_results,        \* argument: the maximum number of results
    search_results,     \* the mapping returned, in insertion order
    collectPc           \* "idle", "page" (before the pass), "done" (after)

collectVars == <<result_rows, max_results, search_results, collectPc>>

\* The discount factor read by one call of MainWindow._calculate_final_price.
VARIABLES
    price_discount      \* getattr(config, 'PRICE_DISCOUNT', 0.95), as a fraction

discountVars == <<price_discount>>

\* State of one call of AliExpressScraper._extract_sku_prices.
VARIABLES
    probe_mode,             \* self.silent_mode / detailed_mode / debug_mode, as the mode
    probe_combos,           \* argument: per combination, whether it has elements
    shown,                  \* the page: the price text displayed now
    default_current_price,  \* the price text read before the loop over combinations
    combo_at,               \* idx + 1: position of the combination being handled
    sku_price,              \* current_price of the combination being handled
    waited,                 \* waited, in milliseconds
    polls,                  \* lookups made by the wait loop for this combination
    changed,                \* the wait loop of this combination left through break
    shown_before,           \* the text displayed when this combination was applied
    final_text,             \* the text read by the final check (None: it raised)
    sku_data_with_prices,   \* the list returned
    probePc                 \* "idle", "start", "combo", "poll", "final", "append",
                            \* "done" (returned), "raised" (left by an exception)

probeVars == <<probe_mode, probe_combos, shown, default_current_price, combo_at,
               sku_price, waited, polls, changed, shown_before, final_text,
               sku_data_with_prices, probePc>>

\* State of the click loop of one combination in _extract_sku_prices.
VARIABLES
    option_classes,     \* the page: the class attribute of each element (None: absent)
    click_at,           \* elem_idx + 1: position of the element being handled
    clicked,            \* the positions a click was issued on, in order
    read_failed,        \* positions whose get_attribute("class") raised
    scroll_failed,      \* positions whose scroll into view raised
    clickPc             \* "idle", "start", "click", "done"

clickVars == <<option_classes, click_at, clicked, read_failed, scroll_failed,
               clickPc>>

\* State of one call of AmazonScraper._extract_feature_bullets.
VARIABLES
    bullet_page,        \* the page: per selector of the list, what its lookup yields
    bullets,            \* the list returned
    bulletPc            \* "idle", "page" (before the call), "done" (after)

bulletVars == <<bullet_page, bullets, bulletPc>>

\* State of one call of scrape_search_results, from the collection of the
\* links on.
VARIABLES
    batch_source,       \* the scraper: "aliexpress" or "amazon"
    max_products,       \* config.MAX_PRODUCTS_TO_SCRAPE
    links_found,        \* the page: the cleaned product links, in page order
    batch_targets,      \* targets: the links selected
    processed,          \* the links scrape_product_details was called with
    batchPc             \* "idle", "page", "loop", "completed", "raised"

batchVars == <<batch_source, max_products, links_found, batch_targets, processed,
               batchPc>>

\* State of LoggingStdout over the lines printed for the targets of one run.
VARIABLES
    log_mode,           \* the mode of the scraper: "silent", "detailed" or "debug"
    log_site,           \* the scraper: "aliexpress" or "amazon"
    stdout_buffer,      \* LoggingStdout.buffer
    log_messages,       \* number of log_message emissions
    item_scraped,       \* number of item_scraped emissions
    records_written,    \* number of product JSON files written
    log_target,         \* the target being processed
    logPc               \* "idle", "describe", "save", "done"

logVars == <<log_mode, log_site, stdout_buffer, log_messages, item_scraped,
             records_written, log_target, logPc>>

\* State of the product-level price of one AliExpress target.
VARIABLES
    price_page,         \* the page: the price text displayed now
    price_default,      \* default_current_price of _extract_sku_prices
    combos_applied,     \* number of combinations the probe has applied
    applied_price,      \* the text displayed once the last combination was applied
    data_current_price, \* data['current_price']
    data_rec_price,     \* data['ali_express_rec_price']
    pricePc             \* "idle", "page", "probe", "fields", "stats", "done"

priceVars == <<price_page, price_default, combos_applied, applied_price,
               data_current_price, data_rec_price, pricePc>>

\* State of Application and CognitoAuthService over the periodic validation.
VARIABLES
    access_token,       \* CognitoAuthService._access_token: 0 (None) or its number
    refresh_token,      \* a refresh token is available (in memory or in the keyring)
    session_timer,      \* Application.session_timer is active
    app_running,        \* the application has not exited
    ticks,              \* timeouts of the timer handled so far
    is_valid,           \* is_valid of _validate_session (None: not assigned)
    refresh_result,     \* how the last refresh_tokens call ended
    revoked_raised,     \* AccessRevokedError was raised during the last validation
    authPc              \* "idle", "wait", "validate", "refresh", "revalidate", "exited"

authVars == <<access_token, refresh_token, session_timer, app_running, ticks,
              is_valid, refresh_result, revoked_raised, authPc>>

tailVars == <<logVars, priceVars, authVars>>

lateVars == <<clickVars, bulletVars, batchVars, tailVars>>

\* State of the calls of the scrapers' helper functions.
helperVars == <<normVars, fieldVars, collectVars, discountVars, probeVars,
               lateVars>>

pureVars == <<enumVars, finalVars, statsVars, parseVars, resolveVars,
              helperVars>>

vars == <<runVars, pureVars>>

Modes == {"silent", "detailed", "debug"}
Sources == {"aliexpress", "amazon"}
ScrapeTypes == {"single", "search"}

(***************************************************************************)
(* The values of the variables before anything has run.                    *)
(***************************************************************************)
RunIdle ==
    /\ mode = "detailed"
    /\ source = "aliexpress"
    /\ scrape_type = "search"
    /\ ctl = "idle"
    /\ thread = "none"
    /\ pc = "idle"
    /\ ret = "none"
    /\ resume_event = FALSE
    /\ scraper = FALSE
    /\ driverAlive = FALSE
    /\ quitCalls = 0
    /\ exc = FALSE
    /\ scraping_completed = FALSE
    /\ signals = {}
    /\ targets = 0
    /\ idx = 0
    /\ started = {}
    /\ saved = {}
    /\ nCombos = 0
    /\ comboIdx = 0
    /\ stopRequested = FALSE
    /\ stopTarget = 0
    /\ awaitingResume = FALSE
    /\ calledWhileAwaiting = FALSE
    /\ gateEvals = 0
    /\ captcha_handled = FALSE
    /\ stages = <<>>
    /\ search_failed = FALSE
    /\ found_prices = <<>>
    /\ data_stats = <<>>
    /\ write_failed = FALSE
    /\ page_state = "checked"
    /\ scraper_thread = 0
    /\ scraper_resume_event = 0
    /\ orphaned = FALSE
    /\ stopPc = "none"

EnumIdle ==
    /\ sku_rows = <<>>
    /\ sku_combinations = <<>>
    /\ enumPc = "idle"

FinalIdle ==
    /\ ali_rec_price = <<>>
    /\ amazon_min_price = <<>>
    /\ final_price = <<>>
    /\ finalPc = "idle"

StatsIdle ==
    /\ amazon_prices = <<>>
    /\ aliexpress_price = <<>>
    /\ price_stats = <<>>
    /\ statsPc = "idle"

ParseIdle ==
    /\ price_text = <<>>
    /\ float_price = [n |-> 0, d |-> 1]
    /\ ui_price = [n |-> 0, d |-> 1]
    /\ parsed = {"scraper", "ui"}

ResolveIdle ==
    /\ price_selectors = <<>>
    /\ current_price = <<>>
    /\ lookups = 0
    /\ resolvePc = "idle"

NormIdle ==
    /\ raw_src = <<>>
    /\ image_site = "aliexpress"
    /\ clean_srcs = <<>>

FieldIdle ==
    /\ field_site = "aliexpress"
    /\ field_page = <<>>
    /\ data_fields = <<>>
    /\ fieldPc = "idle"

CollectIdle ==
    /\ result_rows = <<>>
    /\ max_results = 0
    /\ search_results = <<>>
    /\ collectPc = "idle"

DiscountIdle ==
    price_discount = [n |-> PRICE_DISCOUNT_NUM, d |-> PRICE_DISCOUNT_DEN]

ProbeIdle ==
    /\ probe_mode = "detailed"
    /\ probe_combos = <<>>
    /\ shown = <<>>
    /\ default_current_price = <<"N", "/", "A">>
    /\ combo_at = 0
    /\ sku_price = <<"N", "/", "A">>
    /\ waited = 0
    /\ polls = 0
    /\ changed = FALSE
    /\ shown_before = <<>>
    /\ final_text = <<"None">>
    /\ sku_data_with_prices = <<>>
    /\ probePc = "idle"

ClickIdle ==
    /\ option_classes = <<>>
    /\ click_at = 0
    /\ clicked = <<>>
    /\ read_failed = {}
    /\ scroll_failed = {}
    /\ clickPc = "idle"

BulletIdle ==
    /\ bullet_page = <<>>
    /\ bullets = <<>>
    /\ bulletPc = "idle"

BatchIdle ==
    /\ batch_source = "aliexpress"
    /\ max_products = 0
    /\ links_found = <<>>
    /\ batch_targets = <<>>
    /\ processed = <<>>
    /\ batchPc = "idle"

LogIdle ==
    /\ log_mode = "detailed"
    /\ log_site = "aliexpress"
    /\ stdout_buffer = <<>>
    /\ log_messages = 0
    /\ item_scraped = 0
    /\ records_written = 0
    /\ log_target = 0
    /\ logPc = "idle"

PriceIdle ==
    /\ price_page = <<>>
    /\ price_default = <<>>
    /\ combos_applied = 0
    /\ applied_price = <<>>
    /\ data_current_price = <<>>
    /\ data_rec_price = <<>>
    /\ pricePc = "idle"

AuthIdle ==
    /\ access_token = 0
    /\ refresh_token = FALSE
    /\ session_timer = FALSE
    /\ app_running = TRUE
    /\ ticks = 0
    /\ is_valid = "None"
    /\ refresh_result = "none"
    /\ revoked_raised = FALSE
    /\ authPc = "idle"

TailIdle == LogIdle /\ PriceIdle /\ AuthIdle

LateIdle == ClickIdle /\ BulletIdle /\ BatchIdle /\ TailIdle

HelperIdle ==
    /\ NormIdle /\ FieldIdle /\ CollectIdle /\ DiscountIdle /\ ProbeIdle
    /\ LateIdle

PureIdle ==
    /\ EnumIdle /\ FinalIdle /\ StatsIdle /\ ParseIdle /\ ResolveIdle
    /\ HelperIdle

(***************************************************************************)
(* The variant enumerator: AliExpressScraper._extract_sku_combinations.    *)
(* Strings are sequences of characters.  An option element is given by the *)
(* name its title / alt / text lookups resolve to; its identity is its     *)
(* position <<row, column>> on the page.                                   *)
(***************************************************************************)
OptionNames == { <<" ">>, <<"a">>, <<"b">> }

\* Rows with an option without any name, with a name to strip, and with a
\* name that holds the separator.
ExampleRows ==
    { << <<>>, <<"b">> >>, << <<" ", "a">>, <<"a">> >>,
      << <<"a", ",", " ", "a">>, <<"a">> >> }

PageRows == UNION { [1..m -> OptionNames] : m \in 0..MaxOpts } \cup ExampleRows

Pages == UNION { [1..n -> PageRows] : n \in 0..MaxRows }

\* str.strip()
RECURSIVE LStrip(_)
LStrip(str) ==
    IF str = <<>> THEN <<>>
    ELSE IF Head(str) = " " THEN LStrip(Tail(str)) ELSE str

RECURSIVE RStrip(_)
RStrip(str) ==
    IF str = <<>> THEN <<>>
    ELSE IF str[Len(str)] = " " THEN RStrip(SubSeq(str, 1, Len(str) - 1))
    ELSE str

Strip(str) == RStrip(LStrip(str))

\* The loop over the option elements of one row: an option is appended when
\* its name is not blank, with the stripped name and the element.
RECURSIVE RowOptions(_, _, _)
RowOptions(row, r, c) ==
    IF c > Len(row) THEN <<>>
    ELSE LET opt_name == row[c]
             rest == RowOptions(row, r, c + 1)
         IN  IF Strip(opt_name) # <<>>
                THEN <<[name |-> Strip(opt_name), element |-> <<r, c>>]>> \o rest
                ELSE rest

\* "if options:" -- a row is kept as a property when it has an option.
RowKeptAlways(options) == TRUE

RowKept(options) == options # <<>>

\* The loop over the rows, building sku_properties (the option lists).
RECURSIVE SkuProperties(_, _)
SkuProperties(rows, r) ==
    IF r > Len(rows) THEN <<>>
    ELSE LET options == RowOptions(rows[r], r, 1)
             rest == SkuProperties(rows, r + 1)
         IN  IF RowKept(options) THEN <<options>> \o rest ELSE rest

\* itertools.product: result = [x + [y] for x in result for y in pool],
\* pool after pool.
RECURSIVE ExtendAllSwapped(_, _)
ExtendAllSwapped(result, pool) ==
    IF pool = <<>> THEN <<>>
    ELSE [i \in 1..Len(result) |-> Append(result[i], Head(pool))]
            \o ExtendAllSwapped(result, Tail(pool))

RECURSIVE ExtendAll(_, _)
ExtendAll(result, pool) ==
    IF result = <<>> THEN <<>>
    ELSE [j \in 1..Len(pool) |-> Append(Head(result), pool[j])]
            \o ExtendAll(Tail(result), pool)

RECURSIVE ProductOf(_, _)
ProductOf(result, pools) ==
    IF pools = <<>> THEN result
    ELSE ProductOf(ExtendAll(result, Head(pools)), Tail(pools))

\* ", ".join(combo_parts)
RECURSIVE JoinNames(_)
JoinNames(parts) ==
    IF parts = <<>> THEN <<>>
    ELSE IF Len(parts) = 1 THEN parts[1]
    ELSE parts[1] \o <<",", " ">> \o JoinNames(Tail(parts))

\* One entry of sku_combinations.
Combination(combination) ==
    LET combo_parts == [i \in 1..Len(combination) |-> combination[i].name]
    IN  [name |-> JoinNames(combo_parts),
         options |-> combo_parts,
         elements |-> [i \in 1..Len(combination) |-> combination[i].element]]

ExtractSkuCombinations(rows) ==
    IF rows = <<>> THEN <<>>
    ELSE LET sku_properties == SkuProperties(rows, 1)
         IN  IF sku_properties = <<>> THEN <<>>
             ELSE LET all_combinations == ProductOf(<< <<>> >>, sku_properties)
                  IN  [k \in 1..Len(all_combinations) |->
                          Combination(all_combinations[k])]

ExtractSkuCombinationsCall ==
    /\ enumPc = "page"
    /\ sku_combinations' = ExtractSkuCombinations(sku_rows)
    /\ enumPc' = "done"
    /\ UNCHANGED <<runVars, helperVars, sku_rows, finalVars, statsVars, parseVars,
                   resolveVars>>

EnumInit ==
    /\ RunIdle
    /\ HelperIdle
    /\ FinalIdle
    /\ StatsIdle
    /\ ParseIdle
    /\ ResolveIdle
    /\ sku_rows \in Pages
    /\ sku_combinations = <<>>
    /\ enumPc = "page"

EnumNext == ExtractSkuCombinationsCall

EnumSpec == EnumInit /\ [][EnumNext]_vars

(***************************************************************************)
(* Properties of the enumerator.                                           *)
(***************************************************************************)
IsNamed(str) == \E i \in 1..Len(str) : str[i] # " "

NamedCols(row) ==
    SelectSeq([c \in 1..Len(row) |-> c], LAMBDA c : IsNamed(row[c]))

NamedRows(rows) ==
    SelectSeq([r \in 1..Len(rows) |-> r], LAMBDA r : NamedCols(rows[r]) # <<>>)

RECURSIVE LenProduct(_)
LenProduct(lens) ==
    IF lens = <<>> THEN 1 ELSE Head(lens) * LenProduct(Tail(lens))

\* The parts written one after the other, ", " between neighbours.
RECURSIVE SeparatedBy(_)
SeparatedBy(parts) ==
    IF Len(parts) = 0 THEN <<>>
    ELSE IF Len(parts) = 1 THEN parts[1]
    ELSE SeparatedBy(SubSeq(parts, 1, Len(parts) - 1))
            \o <<",", " ">> \o parts[Len(parts)]

\* C6 (as claimed): the number of combinations is the product of the number
\* of (named) options over all discovered rows, rows without options
\* included, and zero when no row is discovered.
C6_CountAllRows ==
    enumPc = "done" =>
        Len(sku_combinations) =
            IF sku_rows = <<>> THEN 0
            ELSE LenProduct([r \in 1..Len(sku_rows) |->
                                Len(NamedCols(sku_rows[r]))])

\* C6 (amended): the number of combinations is the product, over the rows
\* that have at least one option with a non-blank name, of the number of
\* such options; it is zero when no row has one.
C6_CountNamedRows ==
    enumPc = "done" =>
        LET kept == NamedRows(sku_rows)
        IN  Len(sku_combinations) =
                IF kept = <<>> THEN 0
                ELSE LenProduct([j \in 1..Len(kept) |->
                                    Len(NamedCols(sku_rows[kept[j]]))])

\* C6 witness: a page with an empty row beside a row of two named options.
C6_Witness ==
    /\ enumPc = "done"
    /\ \E r \in 1..Len(sku_rows) : sku_rows[r] = <<>>
    /\ Len(sku_combinations) = 2

\* C7: the result is the Cartesian product of the kept rows in row order,
\* each row's option order preserved and the first row varying slowest, and
\* each name is the option names joined with ", " in row order.
C7_OrderedProduct ==
    enumPc = "done" =>
        LET kept == NamedRows(sku_rows)
            size(j) == Len(NamedCols(sku_rows[kept[j]]))
            weight(j) == LenProduct([i \in 1..(Len(kept) - j) |-> size(j + i)])
            col(k, j) == NamedCols(sku_rows[kept[j]])
                            [(((k - 1) \div weight(j)) % size(j)) + 1]
            raw(k, j) == sku_rows[kept[j]][col(k, j)]
            first(str) == CHOOSE i \in 1..Len(str) :
                             str[i] # " " /\ \A h \in 1..(i - 1) : str[h] = " "
            last(str) == CHOOSE i \in 1..Len(str) :
                             str[i] # " " /\ \A h \in (i + 1)..Len(str) : str[h] = " "
            part(k, j) == SubSeq(raw(k, j), first(raw(k, j)), last(raw(k, j)))
            parts(k) == [j \in 1..Len(kept) |-> part(k, j)]
        IN  /\ Len(sku_combinations) =
                  IF kept = <<>> THEN 0
                  ELSE LenProduct([j \in 1..Len(kept) |-> size(j)])
            /\ \A k \in 1..Len(sku_combinations) :
               LET combo == sku_combinations[k]
               IN  /\ Len(combo.elements) = Len(kept)
                   /\ Len(combo.options) = Len(kept)
                   /\ \A j \in 1..Len(kept) :
                         /\ combo.elements[j] = <<kept[j], col(k, j)>>
                         /\ combo.options[j] = part(k, j)
                   /\ combo.name = SeparatedBy(parts(k))

\* C7 witness: two rows of two named options each, four combinations.
C7_Witness ==
    /\ enumPc = "done"
    /\ Len(sku_combinations) = 4
    /\ Len(sku_combinations[1].options) = 2

\* C8 (as claimed): no two combinations of one product have the same name.
C8_UniqueNames ==
    enumPc = "done" =>
        \A i, j \in 1..Len(sku_combinations) :
            i # j => sku_combinations[i].name # sku_combinations[j].name

(***************************************************************************)
(* Price strings and their parsing.  A parsed price is the exact decimal   *)
(* fraction n / d (d a power of ten) that float() reads from the text; the *)
(* non-finite floats are the records with d = 0: Inf, its negative, NaN.   *)
(***************************************************************************)
Digits == {"0", "1", "2", "3", "4", "5", "6", "7", "8", "9"}

DigitValue(c) ==
    CASE c = "0" -> 0 [] c = "1" -> 1 [] c = "2" -> 2 [] c = "3" -> 3
      [] c = "4" -> 4 [] c = "5" -> 5 [] c = "6" -> 6 [] c = "7" -> 7
      [] c = "8" -> 8 [] c = "9" -> 9

Zero == [n |-> 0, d |-> 1]

\* float('inf') and float('nan')
Inf == [n |-> 1, d |-> 0]

NaN == [n |-> 0, d |-> 0]

IsNaN(a) == a.d = 0 /\ a.n = 0

Sgn(k) == IF k > 0 THEN 1 ELSE IF k < 0 THEN -1 ELSE 0

\* Comparison of two parsed prices, and of a price with a scaled price.
\* Every comparison with NaN is false.
Less(a, b) ==
    /\ ~IsNaN(a)
    /\ ~IsNaN(b)
    /\ IF a.d = 0 /\ b.d = 0 THEN Sgn(a.n) < Sgn(b.n)
                              ELSE a.n * b.d < b.n * a.d

LessEq(a, b) ==
    /\ ~IsNaN(a)
    /\ ~IsNaN(b)
    /\ IF a.d = 0 /\ b.d = 0 THEN Sgn(a.n) <= Sgn(b.n)
                              ELSE a.n * b.d <= b.n * a.d

Scaled(a, num, den) == [n |-> a.n * num, d |-> a.d * den]

\* str.replace(c, "") for each c of chars
Without(str, chars) == SelectSeq(str, LAMBDA c : c \notin chars)

RECURSIVE DigitsToNat(_)
DigitsToNat(str) ==
    IF str = <<>> THEN 0
    ELSE 10 * DigitsToNat(SubSeq(str, 1, Len(str) - 1))
            + DigitValue(str[Len(str)])

RECURSIVE PowerOfTen(_)
PowerOfTen(k) == IF k = 0 THEN 1 ELSE 10 * PowerOfTen(k - 1)

\* float(text) for texts made of digits, ".", "-", blanks, letters and
\* other characters (no "+", exponent or "_"): an optional sign, then either
\* digits with at most one point and at least one digit, or one of the words
\* "inf", "infinity", "nan" in any case; anything else raises ValueError.
Unsigned(text) == IF text # <<>> /\ Head(text) = "-" THEN Tail(text) ELSE text

SignOf(text) == IF text # <<>> /\ Head(text) = "-" THEN -1 ELSE 1

\* The decimal numerals.
DecimalAccepts(text) ==
    LET body == Unsigned(text)
    IN  /\ \A i \in 1..Len(body) : body[i] \in Digits \cup {"."}
        /\ Len(SelectSeq(body, LAMBDA c : c = ".")) <= 1
        /\ \E i \in 1..Len(body) : body[i] \in Digits

DecimalOf(text) ==
    LET body == Unsigned(text)
        point == IF \E i \in 1..Len(body) : body[i] = "."
                    THEN CHOOSE i \in 1..Len(body) : body[i] = "."
                    ELSE Len(body) + 1
        magnitude == DigitsToNat(Without(body, {"."}))
    IN  [n |-> SignOf(text) * magnitude,
         d |-> PowerOfTen(IF point > Len(body) THEN 0 ELSE Len(body) - point)]

\* str.lower() on the letters of the non-finite words
LowerChar(c) ==
    CASE c = "I" -> "i" [] c = "N" -> "n" [] c = "F" -> "f" [] c = "A" -> "a"
      [] c = "T" -> "t" [] c = "Y" -> "y" [] OTHER -> c

Lower(text) == [i \in 1..Len(text) |-> LowerChar(text[i])]

InfWords == { <<"i", "n", "f">>, <<"i", "n", "f", "i", "n", "i", "t", "y">> }

NanWords == { <<"n", "a", "n">> }

FloatAccepts(text) ==
    \/ DecimalAccepts(text)
    \/ Lower(Unsigned(text)) \in InfWords \cup NanWords

FloatOf(text) ==
    IF DecimalAccepts(text) THEN DecimalOf(text)
    ELSE IF Lower(Unsigned(text)) \in InfWords
            THEN [n |-> SignOf(text), d |-> 0]
    ELSE NaN

\* MainWindow._parse_price
parse_price(price_str) ==
    IF price_str = <<>> THEN Zero
    ELSE LET cleaned == Strip(Without(price_str, {"$", ",", "¥"}))
         IN  IF FloatAccepts(cleaned) THEN FloatOf(cleaned) ELSE Zero

\* MainWindow._calculate_final_price
calculate_final_price_inclusive(rec_price, min_price) ==
    LET ali_price == parse_price(rec_price)
        amazon_price == parse_price(min_price)
    IN  IF LessEq(ali_price, Zero) \/ LessEq(amazon_price, Zero) THEN <<>>
        ELSE IF Less(ali_price, Scaled(amazon_price, PRICE_DISCOUNT_NUM,
                                       PRICE_DISCOUNT_DEN))
                THEN rec_price
        ELSE IF LessEq(ali_price, amazon_price) THEN rec_price
        ELSE <<>>

calculate_final_price(rec_price, min_price) ==
    LET ali_price == parse_price(rec_price)
        amazon_price == parse_price(min_price)
    IN  IF LessEq(ali_price, Zero) \/ LessEq(amazon_price, Zero) THEN <<>>
        ELSE IF Less(ali_price, Scaled(amazon_price, PRICE_DISCOUNT_NUM,
                                       PRICE_DISCOUNT_DEN))
                THEN rec_price
        ELSE IF Less(ali_price, amazon_price) THEN rec_price
        ELSE <<>>

\* Price texts: every string over PriceChars up to MaxPriceLen characters,
\* and the texts of the documented examples.
PriceChars == {"0", "1", "5", ".", "$", ",", " ", "-", "N"}

ExamplePrices ==
    { <<"9", ".", "5", "0">>, <<"1", "0", ".", "0", "0">>,
      <<"$", "9", ".", "6", "0">>, <<"N", "/", "A">>,
      <<"$", "1", ",", "2", "3", "4", ".", "5", "6">>,
      <<"i", "n", "f">>, <<"n", "a", "n">> }

PriceTexts ==
    UNION { [1..k -> PriceChars] : k \in 0..MaxPriceLen } \cup ExamplePrices

MinPriceTexts ==
    { <<>>, <<"N", "/", "A">>, <<"0">>, <<"$", "1", ".", "5", "5">>,
      <<"1", "0", ".", "0", "0">>, <<"$", "1", "0", ".", "0", "0">>,
      <<"i", "n", "f">>, <<"n", "a", "n">> }

CalculateFinalPrice ==
    /\ finalPc = "args"
    /\ final_price' = calculate_final_price(ali_rec_price, amazon_min_price)
    /\ finalPc' = "done"
    /\ UNCHANGED <<runVars, helperVars, enumVars, statsVars, parseVars, resolveVars,
                   ali_rec_price, amazon_min_price>>

FinalInit ==
    /\ RunIdle
    /\ HelperIdle
    /\ EnumIdle
    /\ StatsIdle
    /\ ParseIdle
    /\ ResolveIdle
    /\ ali_rec_price \in PriceTexts
    /\ amazon_min_price \in MinPriceTexts
    /\ final_price = <<>>
    /\ finalPc = "args"

FinalNext == CalculateFinalPrice

FinalSpec == FinalInit /\ [][FinalNext]_vars

(***************************************************************************)
(* Properties of the final-price rule.                                     *)
(***************************************************************************)

\* C9: the final price is blank when either text parses to a value <= 0;
\* otherwise it is the recommended text itself when its value is below the
\* competitor minimum, and blank when it is equal or above.  The documented
\* table: 9.50 against 10.00 gives "9.50", 10.00 against 10.00 gives "",
\* 0 against 10.00 gives "".
C9_FinalPriceRule ==
    finalPc = "done" =>
        LET r == parse_price(ali_rec_price)
            m == parse_price(amazon_min_price)
            ten == <<"1", "0", ".", "0", "0">>
        IN  /\ (r.n <= 0 \/ m.n <= 0) => final_price = <<>>
            /\ (r.n > 0 /\ m.n > 0 /\ r.n * m.d < m.n * r.d)
                  => final_price = ali_rec_price
            /\ (r.n > 0 /\ m.n > 0 /\ r.n * m.d >= m.n * r.d)
                  => final_price = <<>>
            /\ (ali_rec_price = <<"9", ".", "5", "0">> /\ amazon_min_price = ten)
                  => final_price = <<"9", ".", "5", "0">>
            /\ (ali_rec_price = ten /\ amazon_min_price = ten)
                  => final_price = <<>>
            /\ (ali_rec_price = <<"0">> /\ amazon_min_price = ten)
                  => final_price = <<>>

\* C9 witness: a recommended price between the discounted minimum and the
\* minimum is returned with its currency sign, unmodified.
C9_Witness ==
    /\ finalPc = "done"
    /\ ali_rec_price = <<"$", "9", ".", "6", "0">>
    /\ amazon_min_price = <<"1", "0", ".", "0", "0">>
    /\ final_price = <<"$", "9", ".", "6", "0">>

(***************************************************************************)
(* The price reconciler: calculate_amazon_price_stats.                     *)
(***************************************************************************)
NA == <<"N", "/", "A">>

\* parse_price_to_float
parse_price_to_float(price_str) ==
    IF price_str = <<>> \/ price_str = NA THEN Zero
    ELSE LET cleaned == Strip(Without(price_str, {"$", ","}))
         IN  IF FloatAccepts(cleaned) THEN FloatOf(cleaned) ELSE Zero

\* The decimal digits of a natural number.
RECURSIVE NatToDigits(_)
NatToDigits(k) ==
    LET digit == CHOOSE c \in Digits : DigitValue(c) = k % 10
    IN  IF k < 10 THEN <<digit>> ELSE Append(NatToDigits(k \div 10), digit)

\* The "," option of the format specification: groups of three digits.
RECURSIVE Grouped(_)
Grouped(digits) ==
    IF Len(digits) <= 3 THEN digits
    ELSE Grouped(SubSeq(digits, 1, Len(digits) - 3)) \o <<",">>
            \o SubSeq(digits, Len(digits) - 2, Len(digits))

\* f"${x:,.2f}" of a non-negative amount given in cents
FormatCents(cents) ==
    LET frac == cents % 100
    IN  <<"$">> \o Grouped(NatToDigits(cents \div 100)) \o <<".">>
            \o NatToDigits(frac \div 10) \o NatToDigits(frac % 10)

\* The amounts in cents the ".2f" rounding of a positive value can produce:
\* the nearest one; at an exact half cent the binary value of the float
\* decides, so both neighbours are possible.
RoundedCents(v) ==
    LET floor == (v.n * 100) \div v.d
        twice == 2 * ((v.n * 100) % v.d)
    IN  IF twice < v.d THEN {floor}
        ELSE IF twice > v.d THEN {floor + 1}
        ELSE {floor, floor + 1}

\* f"${x:,.2f}" of a positive float: "$inf" for the infinite one.
Formats(v) ==
    IF v.d = 0 THEN { <<"$", "i", "n", "f">> }
    ELSE { FormatCents(c) : c \in RoundedCents(v) }

\* "if price_float > 0": the quotes that enter the statistics.
PriceQualifiesOrZero(price_float) == LessEq(Zero, price_float)

PriceQualifies(price_float) == Less(Zero, price_float)

\* "price_float < min_price": the first minimum is kept.
ReplacesMinLast(price, acc) == LessEq(price, acc.min_price)

ReplacesMin(price, acc) == Less(price, acc.min_price)

\* The loop over amazon_prices.items().
RECURSIVE ScanQuotes(_, _)
ScanQuotes(quotes, acc) ==
    IF quotes = <<>> THEN acc
    ELSE LET q == Head(quotes)
             price_float == parse_price_to_float(q.price)
             next == IF PriceQualifies(price_float)
                        THEN IF ReplacesMin(price_float, acc)
                                THEN [valid_prices |-> Append(acc.valid_prices, price_float),
                                      min_price |-> price_float,
                                      min_product |-> q.title,
                                      min_product_url |-> q.url]
                                ELSE [acc EXCEPT !.valid_prices = Append(@, price_float)]
                        ELSE acc
         IN  ScanQuotes(Tail(quotes), next)

\* sum(valid_prices) as an exact fraction; the denominators are powers of
\* ten, so the larger one is a common denominator.  The prices summed are
\* positive: the sum with an infinite one is infinite.
RECURSIVE SumOf(_)
SumOf(values) ==
    IF values = <<>> THEN Zero
    ELSE LET rest == SumOf(Tail(values))
             v == Head(values)
             d == IF v.d > rest.d THEN v.d ELSE rest.d
         IN  IF v.d = 0 \/ rest.d = 0 THEN Inf
             ELSE [n |-> v.n * (d \div v.d) + rest.n * (d \div rest.d),
                   d |-> d]

\* aliexpress_price or "N/A"
OrNAVerbatim(price_str) == price_str

OrNA(price_str) == IF price_str = <<>> THEN NA ELSE price_str

\* The dict returned when the mapping is empty or no quote qualifies.
NoStatsZero(own_price) ==
    [amazon_avg_price |-> <<"$", "0", ".", "0", "0">>,
     amazon_min_price |-> NA,
     amazon_min_price_product |-> NA,
     amazon_min_price_product_url |-> <<>>,
     ali_express_rec_price |-> OrNA(own_price)]

NoStats(own_price) ==
    [amazon_avg_price |-> NA,
     amazon_min_price |-> NA,
     amazon_min_price_product |-> NA,
     amazon_min_price_product_url |-> <<>>,
     ali_express_rec_price |-> OrNA(own_price)]

\* The set of dicts calculate_amazon_price_stats can return.
calculate_amazon_price_stats(quotes, own_price) ==
    IF quotes = <<>> THEN {NoStats(own_price)}
    ELSE LET acc == ScanQuotes(quotes, [valid_prices |-> <<>>,
                                        min_price |-> Inf, min_product |-> <<>>,
                                        min_product_url |-> <<>>])
         IN  IF acc.valid_prices = <<>> THEN {NoStats(own_price)}
             ELSE LET total == SumOf(acc.valid_prices)
                      avg_price == [n |-> total.n,
                                    d |-> total.d * Len(acc.valid_prices)]
                  IN  { [amazon_avg_price |-> avg,
                         amazon_min_price |-> min,
                         amazon_min_price_product |-> acc.min_product,
                         amazon_min_price_product_url |-> acc.min_product_url,
                         ali_express_rec_price |-> OrNA(own_price)] :
                        avg \in Formats(avg_price), min \in Formats(acc.min_price) }

\* The inputs: mappings of up to MaxQuotes quotes with distinct titles.
TitlePool == <<"A", "B", "C", "D", "E">>

\* The quote of title "C" is in the old format (a bare price string, no url).
UrlOf(title) == IF title = <<"C">> THEN <<>> ELSE <<"u">> \o title

QuotePrices ==
    { <<"$", "2">>, <<"$", "1">>, <<"1", ".", "0">>, NA, <<"-", "1">>,
      <<"$", "1", ",", "2", "3", "4", ".", "5", "6">>, <<>>, <<"$", "0">> }

\* The keys of a mapping of k quotes, in iteration order: distinct titles.
\* Titles are opaque to the statistics; the rotations of the first k titles
\* put the old-format quote at every position.
TitleOrders(k) ==
    { [i \in 1..k |-> <<TitlePool[((i + r - 1) % k) + 1]>>] : r \in 0..(k - 1) }

\* The mapping with keys ts and prices ps.
QuoteMapping(ts, ps) ==
    [i \in 1..Len(ts) |-> [title |-> ts[i], price |-> ps[i],
                           url |-> UrlOf(ts[i])]]

OwnPrices == { <<>>, NA, <<"9", ".", "5", "0">> }

CalculateAmazonPriceStats ==
    /\ statsPc = "args"
    /\ price_stats' \in calculate_amazon_price_stats(amazon_prices, aliexpress_price)
    /\ statsPc' = "done"
    /\ UNCHANGED <<runVars, helperVars, enumVars, finalVars, parseVars, resolveVars,
                   amazon_prices, aliexpress_price>>

StatsInit ==
    /\ RunIdle
    /\ HelperIdle
    /\ EnumIdle
    /\ FinalIdle
    /\ ParseIdle
    /\ ResolveIdle
    /\ \E k \in 0..MaxQuotes :
          \E ts \in TitleOrders(k), ps \in [1..k -> QuotePrices] :
             amazon_prices = QuoteMapping(ts, ps)
    /\ aliexpress_price \in OwnPrices
    /\ price_stats = <<>>
    /\ statsPc = "args"

StatsNext == CalculateAmazonPriceStats

StatsSpec == StatsInit /\ [][StatsNext]_vars

(***************************************************************************)
(* The two price parsers applied to one text.                              *)
(***************************************************************************)
ParseChars ==
    {"0", "1", "5", ".", "$", ",", " ", "-", "N", "n", "a", "i", "f", "¥"}

ExampleTexts ==
    { NA, <<"$", "1", ",", "2", "3", "4", ".", "5", "6">>,
      <<"I", "n", "f", "i", "n", "i", "t", "y">> }

ParseTexts ==
    UNION { [1..k -> ParseChars] : k \in 0..MaxPriceLen } \cup ExampleTexts

ParsePriceToFloat ==
    /\ "scraper" \notin parsed
    /\ float_price' = parse_price_to_float(price_text)
    /\ parsed' = parsed \cup {"scraper"}
    /\ UNCHANGED <<runVars, helperVars, enumVars, finalVars, statsVars, resolveVars,
                   price_text, ui_price>>

ParsePrice ==
    /\ "ui" \notin parsed
    /\ ui_price' = parse_price(price_text)
    /\ parsed' = parsed \cup {"ui"}
    /\ UNCHANGED <<runVars, helperVars, enumVars, finalVars, statsVars, resolveVars,
                   price_text, float_price>>

ParseInit ==
    /\ RunIdle
    /\ HelperIdle
    /\ EnumIdle
    /\ FinalIdle
    /\ StatsIdle
    /\ ResolveIdle
    /\ price_text \in ParseTexts
    /\ float_price = Zero
    /\ ui_price = Zero
    /\ parsed = {}

ParseNext == ParsePriceToFloat \/ ParsePrice

ParseSpec == ParseInit /\ [][ParseNext]_vars

(***************************************************************************)
(* Properties of the price parsers.                                        *)
(***************************************************************************)

\* What the parsing rule asks of the value returned for a text: with the
\* currency symbols and commas removed and the surrounding blanks stripped,
\* a decimal numeral parses to its value and anything else to 0.
ParsesAsDocumented(text, symbols, value) ==
    LET cleaned == Strip(Without(text, symbols))
    IN  IF DecimalAccepts(cleaned) THEN value = DecimalOf(cleaned)
        ELSE value = Zero

\* C14 (as claimed): both parsers return the numeric value of the text once
\* currency symbols, commas and surrounding blanks are removed, and 0 for
\* every empty, "N/A" or otherwise non-numeric text; "$1,234.56" parses to
\* 1234.56, "N/A" and "" to 0.
C14_ParsePrice ==
    /\ "scraper" \in parsed =>
          /\ ParsesAsDocumented(price_text, {"$", ","}, float_price)
          /\ price_text = <<"$", "1", ",", "2", "3", "4", ".", "5", "6">>
                => float_price = [n |-> 123456, d |-> 100]
          /\ price_text \in {NA, <<>>} => float_price = Zero
    /\ "ui" \in parsed =>
          /\ ParsesAsDocumented(price_text, {"$", ",", "¥"}, ui_price)
          /\ price_text = <<"$", "1", ",", "2", "3", "4", ".", "5", "6">>
                => ui_price = [n |-> 123456, d |-> 100]
          /\ price_text \in {NA, <<>>} => ui_price = Zero

(***************************************************************************)
(* Properties of the reconciler.                                           *)
(***************************************************************************)
Qualifies(q) == parse_price_to_float(q.price).n > 0

QualifyingQuotes == { i \in 1..Len(amazon_prices) : Qualifies(amazon_prices[i]) }

CentsOf(v) == (v.n * 100) \div v.d

RECURSIVE CentsOver(_)
CentsOver(indices) ==
    IF indices = {} THEN 0
    ELSE LET i == CHOOSE j \in indices : TRUE
         IN  CentsOf(parse_price_to_float(amazon_prices[i].price))
                + CentsOver(indices \ {i})

SelectorTexts == { <<>>, <<" ">>, <<"X">>, <<"Y">>, <<" ", "X">> }

SelectorYields ==
    { [kind |-> "fail", text |-> <<>>], [kind |-> "none", text |-> <<>>] }
        \cup { [kind |-> "text", text |-> t] : t \in SelectorTexts }

SelectorPages == UNION { [1..k -> SelectorYields] : k \in 0..MaxStrategies }

\* "if price_elements: ... if price_text:": the lookup that ends the loop.
EndsLoopAlways(yield) == yield.kind = "text"

EndsLoop(yield) == yield.kind = "text" /\ yield.text # <<>>

\* The selectors the loop evaluates: up to the first one that ends it.
RECURSIVE Evaluated(_)
Evaluated(page) ==
    IF page = <<>> THEN 0
    ELSE IF EndsLoop(Head(page)) THEN 1
    ELSE 1 + Evaluated(Tail(page))

\* current_price after the loop; "N/A" when no selector ends it.
RECURSIVE ResolvePrice(_)
ResolvePrice(page) ==
    IF page = <<>> THEN NA
    ELSE IF EndsLoop(Head(page)) THEN Strip(Head(page).text)
    ELSE ResolvePrice(Tail(page))

ExtractPrices ==
    /\ resolvePc = "page"
    /\ current_price' = ResolvePrice(price_selectors)
    /\ lookups' = Evaluated(price_selectors)
    /\ resolvePc' = "done"
    /\ UNCHANGED <<runVars, helperVars, enumVars, finalVars, statsVars, parseVars,
                   price_selectors>>

ResolveInit ==
    /\ RunIdle
    /\ HelperIdle
    /\ EnumIdle
    /\ FinalIdle
    /\ StatsIdle
    /\ ParseIdle
    /\ price_selectors \in SelectorPages
    /\ current_price = <<>>
    /\ lookups = 0
    /\ resolvePc = "page"

ResolveNext == ExtractPrices

ResolveSpec == ResolveInit /\ [][ResolveNext]_vars

(***************************************************************************)
(* Properties of the selector fallback.                                    *)
(***************************************************************************)
NonEmptyResult(yield) == yield.kind = "text" /\ yield.text # <<>>

None == <<"None">>

\* 'not url'
Falsy(url) == url = None \/ url = <<>>

StartsWith(str, prefix) ==
    Len(str) >= Len(prefix) /\ SubSeq(str, 1, Len(prefix)) = prefix

EndsWith(str, suffix) ==
    Len(str) >= Len(suffix)
        /\ SubSeq(str, Len(str) - Len(suffix) + 1, Len(str)) = suffix

Drop(str, k) == SubSeq(str, k + 1, Len(str))

\* Length of the longest prefix of str made of characters of chars.
RECURSIVE RunLen(_, _)
RunLen(str, chars) ==
    IF str # <<>> /\ Head(str) \in chars
       THEN 1 + RunLen(Tail(str), chars)
       ELSE 0

Upper == {"A", "B", "C", "D", "E", "F", "G", "H", "I", "J", "K", "L", "M",
          "N", "O", "P", "Q", "R", "S", "T", "U", "V", "W", "X", "Y", "Z"}

\* re.IGNORECASE, on the letters the patterns of clean_image_url name.
FoldChar(c) ==
    CASE c = "X" -> "x" [] c = "J" -> "j" [] c = "P" -> "p" [] c = "G" -> "g"
      [] c = "E" -> "e" [] c = "N" -> "n" [] c = "W" -> "w" [] c = "B" -> "b"
      [] c = "M" -> "m" [] c = "A" -> "a" [] c = "I" -> "i" [] c = "R" -> "r"
      [] c = "O" -> "o" [] c = "F" -> "f" [] c = "L" -> "l" [] c = "V" -> "v"
      [] OTHER -> c

Fold(str) == [i \in 1..Len(str) |-> FoldChar(str[i])]

\* url.split("?")[0]
BeforeQuery(url) ==
    IF \E i \in 1..Len(url) : url[i] = "?"
       THEN LET first == CHOOSE i \in 1..Len(url) :
                            /\ url[i] = "?"
                            /\ \A j \in 1..(i - 1) : url[j] # "?"
            IN  SubSeq(url, 1, first - 1)
       ELSE url

\* (jpg|jpeg|png|webp)
ImageExts ==
    { <<"j", "p", "g">>, <<"j", "p", "e", "g">>, <<"p", "n", "g">>,
      <<"w", "e", "b", "p">> }

AvifTail == <<"_", ".", "a", "v", "i", "f">>

\* _\d+x\d+[^.]* matches the whole of body (case folded).
IsSizeBody(body) ==
    /\ body # <<>>
    /\ Head(body) = "_"
    /\ LET width == RunLen(Drop(body, 1), Digits)
       IN  /\ width >= 1
           /\ Len(body) >= width + 2
           /\ body[width + 2] = "x"
           /\ LET rest == Drop(body, width + 2)
              IN  /\ RunLen(rest, Digits) >= 1
                  /\ \A i \in 1..Len(rest) : rest[i] # "."

\* _\d+x\d+[^.]*\.(jpg|jpeg|png|webp)(_\.avif)?$ matches the whole of str.
IsSizeSuffix(str) ==
    LET folded == Fold(str)
        cores == {folded} \cup
                 (IF EndsWith(folded, AvifTail)
                     THEN {SubSeq(folded, 1, Len(folded) - Len(AvifTail))}
                     ELSE {})
    IN  \E core \in cores, ext \in ImageExts :
           /\ EndsWith(core, <<".">> \o ext)
           /\ IsSizeBody(SubSeq(core, 1, Len(core) - Len(ext) - 1))

\* re.sub of the size pattern by '': the leftmost match is cut off.
StripSize(base_url) ==
    LET starts == { i \in 1..Len(base_url) :
                      IsSizeSuffix(SubSeq(base_url, i, Len(base_url))) }
    IN  IF starts = {} THEN base_url
        ELSE LET first == CHOOSE i \in starts : \A j \in starts : i <= j
             IN  SubSeq(base_url, 1, first - 1)

\* re.sub(r'<word>\.(jpg|jpeg|png|webp)$', r'.\1', base_url)
StripWord(base_url, word) ==
    LET exts == { ext \in ImageExts :
                    EndsWith(Fold(base_url), word \o <<".">> \o ext) }
    IN  IF exts = {} THEN base_url
        ELSE LET ext == CHOOSE e \in exts : TRUE
                 cut == Len(base_url) - Len(ext) - 1 - Len(word)
             IN  SubSeq(base_url, 1, cut)
                   \o SubSeq(base_url, Len(base_url) - Len(ext), Len(base_url))

MainWord == <<"_", "m", "a", "i", "n">>

ProfileWord == <<"_", "p", "r", "o", "f", "i", "l", "e">>

\* a protocol-relative reference gets the https scheme
WithScheme(url) ==
    IF StartsWith(url, <<"/", "/">>)
       THEN <<"h", "t", "t", "p", "s", ":">> \o url
       ELSE url

clean_image_url(url) ==
    IF Falsy(url) THEN None
    ELSE WithScheme(StripWord(StripWord(StripSize(BeforeQuery(url)),
                                        MainWord), ProfileWord))

\* Length of the match of an Amazon pattern at the head of str (0: none):
\*   "modifier"   \._[A-Z]{2}_[A-Z]{2,}\d*_
\*   "size"       \._[A-Z]+\d+_
\*   "underscore" _+\.
MatchLen(pattern, str) ==
    CASE pattern = "modifier" ->
           IF /\ Len(str) >= 5
              /\ str[1] = "." /\ str[2] = "_"
              /\ str[3] \in Upper /\ str[4] \in Upper
              /\ str[5] = "_"
              THEN LET letters == RunLen(Drop(str, 5), Upper)
                       digits == RunLen(Drop(str, 5 + letters), Digits)
                       last == 6 + letters + digits
                   IN  IF letters >= 2 /\ Len(str) >= last /\ str[last] = "_"
                          THEN last ELSE 0
              ELSE 0
      [] pattern = "size" ->
           IF Len(str) >= 2 /\ str[1] = "." /\ str[2] = "_"
              THEN LET letters == RunLen(Drop(str, 2), Upper)
                       digits == RunLen(Drop(str, 2 + letters), Digits)
                       last == 3 + letters + digits
                   IN  IF /\ letters >= 1 /\ digits >= 1
                          /\ Len(str) >= last /\ str[last] = "_"
                          THEN last ELSE 0
              ELSE 0
      [] pattern = "underscore" ->
           LET run == RunLen(str, {"_"})
           IN  IF run >= 1 /\ Len(str) > run /\ str[run + 1] = "."
                  THEN run + 1 ELSE 0

\* re.sub(pattern, '.', url): every match, left to right, not overlapping.
RECURSIVE SubDot(_, _)
SubDot(pattern, url) ==
    IF url = <<>> THEN <<>>
    ELSE LET k == MatchLen(pattern, url)
         IN  IF k > 0 THEN <<".">> \o SubDot(pattern, Drop(url, k))
             ELSE <<Head(url)>> \o SubDot(pattern, Tail(url))

clean_amazon_image_url(url) ==
    IF Falsy(url) THEN None
    ELSE SubDot("underscore",
                SubDot("size", SubDot("modifier", WithScheme(url))))

\* The normalizer applied to the references of a site.
Normalize(site, url) ==
    IF site = "aliexpress" THEN clean_image_url(url)
    ELSE clean_amazon_image_url(url)

\* The inputs: None and the references made of up to MaxUrlParts parts.
ImageParts ==
    { <<"a">>, <<".", "j", "p", "g">>, <<".", "J", "P", "G">>,
      <<"_", "1", "x", "1">>, <<"_", "m", "a", "i", "n">>,
      <<"_", "p", "r", "o", "f", "i", "l", "e">>,
      <<"_", ".", "a", "v", "i", "f">>, <<"?", "w">>, <<"/", "/">>,
      <<".", "_", "A", "C", "_", "S", "X", "6", "_">>,
      <<".", "_", "A", "1", "_">>, <<"_", "B", "2", "_">> }

RECURSIVE Flatten(_)
Flatten(parts) ==
    IF parts = <<>> THEN <<>> ELSE Head(parts) \o Flatten(Tail(parts))

ImageRefs ==
    {None} \cup
    { Flatten(parts) : parts \in UNION { [1..k -> ImageParts] : k \in 0..MaxUrlParts } }

\* One more application of the site's normalizer to the stored reference.
CleanImageUrl ==
    /\ Len(clean_srcs) < 2
    /\ clean_srcs' =
         Append(clean_srcs,
                Normalize(image_site, IF clean_srcs = <<>> THEN raw_src
                                      ELSE clean_srcs[Len(clean_srcs)]))
    /\ UNCHANGED <<runVars, enumVars, finalVars, statsVars, parseVars,
                   resolveVars, fieldVars, collectVars, discountVars, probeVars, lateVars,
                   raw_src,
                   image_site>>

NormInit ==
    /\ RunIdle
    /\ EnumIdle /\ FinalIdle /\ StatsIdle /\ ParseIdle /\ ResolveIdle
    /\ FieldIdle /\ CollectIdle /\ DiscountIdle /\ ProbeIdle /\ LateIdle
    /\ raw_src \in ImageRefs
    /\ image_site \in Sources
    /\ clean_srcs = <<>>

NormNext == CleanImageUrl

NormSpec == NormInit /\ [][NormNext]_vars

(***************************************************************************)
(* Properties of the normalizers.                                          *)
(***************************************************************************)
Queries == { <<>>, <<"w">>, <<"w", "=", "1", "?", "h">> }

\* C22: a second application of the normalizer changes nothing, and a
\* reference followed by "?" and any query normalizes to what the reference
\* alone normalizes to.
C22_IdempotentQueryInsensitive ==
    /\ Len(clean_srcs) = 2 => clean_srcs[2] = clean_srcs[1]
    /\ (Len(clean_srcs) >= 1 /\ raw_src # None) =>
          \A q \in Queries :
             Normalize(image_site, raw_src \o <<"?">> \o q) = clean_srcs[1]

(***************************************************************************)
(* The product-level fields: title, current price and gallery as read by   *)
(* AliExpressScraper.scrape_product_details, title and current price as    *)
(* read by AmazonScraper._extract_title and _extract_prices.  A lookup      *)
(* yields "fail" (the driver raises), "none" (no element: the wait times   *)
(* out, find_element raises) or the text of the element found.             *)
(***************************************************************************)
Unknown == <<"U", "n", "k", "n", "o", "w", "n">>

UsDollar == <<"U", "S", " ", "$">>

FieldTexts ==
    SelectorTexts \cup { UsDollar, UsDollar \o <<"X">> }

FieldYields ==
    { [kind |-> "fail", text |-> <<>>], [kind |-> "none", text |-> <<>>] }
        \cup { [kind |-> "text", text |-> t] : t \in FieldTexts }

\* The src attributes of the gallery images, or the failure of their lookup.
GallerySrcs == { None, <<"a">>, <<"a", "?", "w">> }

GalleryYields ==
    { [kind |-> "fail", srcs |-> <<>>] }
        \cup { [kind |-> "list", srcs |-> srcs] :
                 srcs \in UNION { [1..k -> GallerySrcs] : k \in 0..MaxImages } }

\* str.replace(old, ''): every occurrence, left to right.
RECURSIVE Remove(_, _)
Remove(str, old) ==
    IF str = <<>> THEN <<>>
    ELSE IF StartsWith(str, old) THEN Remove(Drop(str, Len(old)), old)
    ELSE <<Head(str)>> \o Remove(Tail(str), old)

\* try: title_el = wait.until(...); title = title_el.text
\* except: "Unknown".  Amazon strips the text, AliExpress does not.
ExtractTitleBlank(site, yield) ==
    IF yield.kind # "text" THEN <<>>
    ELSE IF site = "amazon" THEN Strip(yield.text)
    ELSE yield.text

ExtractTitle(site, yield) ==
    IF yield.kind # "text" THEN Unknown
    ELSE IF site = "amazon" THEN Strip(yield.text)
    ELSE yield.text

\* AliExpress: the one price selector; Amazon: the selector list.
ExtractCurrentPrice(site, yields) ==
    IF site = "amazon" THEN ResolvePrice(yields)
    ELSE IF Head(yields).kind # "text" THEN NA
    ELSE Strip(Remove(Head(yields).text, UsDollar))

\* AliExpress: the cleaned srcs that are not empty, each once.
RECURSIVE GalleryUrls(_, _)
GalleryUrls(srcs, gallery_urls) ==
    IF srcs = <<>> THEN gallery_urls
    ELSE LET clean_src == clean_image_url(Head(srcs))
             listed == \E i \in 1..Len(gallery_urls) : gallery_urls[i] = clean_src
         IN  GalleryUrls(Tail(srcs),
                         IF ~Falsy(clean_src) /\ ~listed
                            THEN Append(gallery_urls, clean_src)
                            ELSE gallery_urls)

ExtractGallery(yield) ==
    IF yield.kind = "fail" THEN <<>> ELSE GalleryUrls(yield.srcs, <<>>)

ExtractFields ==
    /\ fieldPc = "page"
    /\ data_fields' =
         [title |-> ExtractTitle(field_site, field_page.title),
          current_price |-> ExtractCurrentPrice(field_site, field_page.prices),
          gallery_images |-> ExtractGallery(field_page.gallery),
          status |-> "scraped"]
    /\ fieldPc' = "done"
    /\ UNCHANGED <<runVars, enumVars, finalVars, statsVars, parseVars,
                   resolveVars, normVars, collectVars, discountVars, probeVars, lateVars,
                   field_site, field_page>>

\* The pages: AliExpress has one price selector, Amazon a list of them; the
\* gallery is read this way by AliExpress only.
FieldPages ==
    { [title |-> t, prices |-> << p >>, gallery |-> g] :
        t \in FieldYields, p \in FieldYields, g \in GalleryYields }

AmazonFieldPages ==
    { [title |-> t, prices |-> ps, gallery |-> [kind |-> "list", srcs |-> <<>>]] :
        t \in FieldYields, ps \in SelectorPages }

FieldInit ==
    /\ RunIdle
    /\ EnumIdle /\ FinalIdle /\ StatsIdle /\ ParseIdle /\ ResolveIdle
    /\ NormIdle /\ CollectIdle /\ DiscountIdle /\ ProbeIdle /\ LateIdle
    /\ field_site \in Sources
    /\ field_page \in (IF field_site = "amazon" THEN AmazonFieldPages
                       ELSE FieldPages)
    /\ data_fields = <<>>
    /\ fieldPc = "page"

FieldNext == ExtractFields

FieldSpec == FieldInit /\ [][FieldNext]_vars

(***************************************************************************)
(* Properties of the field extraction.                                     *)
(***************************************************************************)
\* A lookup that yields no result: it fails or finds no element.  The
\* selector loop of Amazon's prices also passes over an element without text.
YieldsNothing(yield) == yield.kind # "text"

YieldsNoPrice(site, yield) ==
    YieldsNothing(yield) \/ (site = "amazon" /\ yield.text = <<>>)

RowTitles == { <<>>, <<" ">>, <<"A">>, <<"A", " ">>, <<"B">> }

RowPrices == { <<"$", "1">>, <<"$", "2">> }

ResultRows ==
    { [raises |-> TRUE, title |-> <<>>, price |-> NA] }
        \cup { [raises |-> FALSE, title |-> t, price |-> p] :
                 t \in RowTitles, p \in RowPrices }

RowUrl(i) == <<"u", CHOOSE c \in Digits : DigitValue(c) = i>>

\* results[title] = {"price": price, "url": url}: a new key is appended, a
\* key already present keeps its place and takes the new value.
StoreFirst(mapping, entry) ==
    IF \E i \in 1..Len(mapping) : mapping[i].title = entry.title
       THEN mapping
       ELSE Append(mapping, entry)

Store(mapping, entry) ==
    IF \E i \in 1..Len(mapping) : mapping[i].title = entry.title
       THEN [i \in 1..Len(mapping) |->
               IF mapping[i].title = entry.title THEN entry ELSE mapping[i]]
       ELSE Append(mapping, entry)

\* for elem in result_elements[:max_results], from row i on.
RECURSIVE CollectRows(_, _, _, _)
CollectRows(rows, i, limit, mapping) ==
    IF i > Len(rows) \/ i > limit THEN mapping
    ELSE LET row == rows[i]
             title == Strip(row.title)
         IN  CollectRows(rows, i + 1, limit,
                IF ~row.raises /\ title # <<>> /\ Len(mapping) < limit
                   THEN Store(mapping, [title |-> title, price |-> row.price,
                                        url |-> RowUrl(i)])
                   ELSE mapping)

SearchAmazonPrices ==
    /\ collectPc = "page"
    /\ search_results' = CollectRows(result_rows, 1, max_results, <<>>)
    /\ collectPc' = "done"
    /\ UNCHANGED <<runVars, enumVars, finalVars, statsVars, parseVars,
                   resolveVars, normVars, fieldVars, discountVars, probeVars, lateVars,
                   result_rows,
                   max_results>>

CollectInit ==
    /\ RunIdle
    /\ EnumIdle /\ FinalIdle /\ StatsIdle /\ ParseIdle /\ ResolveIdle
    /\ NormIdle /\ FieldIdle /\ DiscountIdle /\ ProbeIdle /\ LateIdle
    /\ \E k \in 0..MaxResultRows : result_rows \in [1..k -> ResultRows]
    /\ max_results \in 0..MaxResultRows
    /\ search_results = <<>>
    /\ collectPc = "page"

CollectNext == SearchAmazonPrices

CollectSpec == CollectInit /\ [][CollectNext]_vars

(***************************************************************************)
(* Properties of the collector.                                            *)
(***************************************************************************)
\* The rows among the first max_results that were read and have a title.
TitledRows ==
    { i \in 1..Len(result_rows) :
        /\ i <= max_results
        /\ ~result_rows[i].raises
        /\ \E j \in 1..Len(result_rows[i].title) : result_rows[i].title[j] # " " }

\* The title of a row with its surrounding blanks removed.
KeyOf(i) ==
    LET title == result_rows[i].title
        inner == { j \in 1..Len(title) : title[j] # " " }
        lo == CHOOSE j \in inner : \A k \in inner : j <= k
        hi == CHOOSE j \in inner : \A k \in inner : k <= j
    IN  SubSeq(title, lo, hi)

\* C25: the mapping has at most max_results entries, one per title of the
\* titled rows among the first max_results rows, and each entry holds the
\* price and the url of the last row of its title.
C25_LastRowPerTitle ==
    collectPc = "done" =>
        /\ Len(search_results) <= max_results
        /\ \A i, j \in 1..Len(search_results) :
              search_results[i].title = search_results[j].title => i = j
        /\ { search_results[i].title : i \in 1..Len(search_results) }
              = { KeyOf(i) : i \in TitledRows }
        /\ \A e \in 1..Len(search_results) :
              LET same == { i \in TitledRows : KeyOf(i) = search_results[e].title }
                  last == CHOOSE i \in same : \A j \in same : j <= i
              IN  /\ search_results[e].price = result_rows[last].price
                  /\ search_results[e].url = RowUrl(last)

\* C25 witness: a title occurs in two rows with different prices among the
\* first max_results rows, and the page has a titled row beyond them.
C25_Witness ==
    /\ collectPc = "done"
    /\ Len(result_rows) > max_results
    /\ \E i, j \in TitledRows :
          /\ i < j
          /\ KeyOf(i) = KeyOf(j)
          /\ result_rows[i].price # result_rows[j].price
    /\ \E i \in 1..Len(result_rows) :
          i > max_results /\ result_rows[i].title = <<"B">>
    /\ Len(search_results) = 1

(***************************************************************************)
(* MainWindow._calculate_final_price under any configured discount: the    *)
(* factor is whatever config.PRICE_DISCOUNT holds.                         *)
(***************************************************************************)
calculate_final_price_second_inclusive(discount, rec_price, min_price) ==
    LET ali_price == parse_price(rec_price)
        amazon_price == parse_price(min_price)
    IN  IF LessEq(ali_price, Zero) \/ LessEq(amazon_price, Zero) THEN <<>>
        ELSE IF Less(ali_price, Scaled(amazon_price, discount.n, discount.d))
                THEN rec_price
        ELSE IF LessEq(ali_price, amazon_price) THEN rec_price
        ELSE <<>>

calculate_final_price_at(discount, rec_price, min_price) ==
    LET ali_price == parse_price(rec_price)
        amazon_price == parse_price(min_price)
    IN  IF LessEq(ali_price, Zero) \/ LessEq(amazon_price, Zero) THEN <<>>
        ELSE IF Less(ali_price, Scaled(amazon_price, discount.n, discount.d))
                THEN rec_price
        ELSE IF Less(ali_price, amazon_price) THEN rec_price
        ELSE <<>>

\* The discount factors: none, negative, a half, the default, one, and two
\* factors above one.
Discounts ==
    { [n |-> 0, d |-> 1], [n |-> -1, d |-> 1], [n |-> 1, d |-> 2],
      [n |-> 95, d |-> 100], [n |-> 1, d |-> 1], [n |-> 105, d |-> 100],
      [n |-> 2, d |-> 1] }

CalculateFinalPriceAt ==
    /\ finalPc = "args"
    /\ final_price' = calculate_final_price_at(price_discount, ali_rec_price,
                                               amazon_min_price)
    /\ finalPc' = "done"
    /\ UNCHANGED <<runVars, enumVars, statsVars, parseVars, resolveVars,
                   normVars, fieldVars, collectVars, discountVars, probeVars, lateVars,
                   ali_rec_price, amazon_min_price>>

DiscountInit ==
    /\ RunIdle
    /\ EnumIdle /\ StatsIdle /\ ParseIdle /\ ResolveIdle
    /\ NormIdle /\ FieldIdle /\ CollectIdle /\ ProbeIdle /\ LateIdle
    /\ price_discount \in Discounts
    /\ ali_rec_price \in PriceTexts
    /\ amazon_min_price \in MinPriceTexts
    /\ final_price = <<>>
    /\ finalPc = "args"

DiscountNext == CalculateFinalPriceAt

DiscountSpec == DiscountInit /\ [][DiscountNext]_vars

(***************************************************************************)
(* Properties of the final-price rule under any discount.                  *)
(***************************************************************************)
\* The collapsed two-way form: the recommended text when its value is above
\* zero and below the competitor minimum, blank otherwise.
TwoWay(rec_price, min_price) ==
    IF /\ Less(Zero, parse_price(rec_price))
       /\ Less(parse_price(rec_price), parse_price(min_price))
       THEN rec_price
       ELSE <<>>

\* C26 (as claimed): for every configured discount factor the result is
\* that of the two-way form.
C26_TwoWayForEveryDiscount ==
    finalPc = "done" => final_price = TwoWay(ali_rec_price, amazon_min_price)

\* C26 (amended): for every configured discount factor of at most one the
\* result is that of the two-way form; above one, the recommended text is
\* also returned when its value is at least the minimum and below the
\* minimum times the factor.
C26_TwoWayUpToOne ==
    finalPc = "done" =>
        LET r == parse_price(ali_rec_price)
            m == parse_price(amazon_min_price)
            two_way == TwoWay(ali_rec_price, amazon_min_price)
        IN  /\ LessEq(price_discount, [n |-> 1, d |-> 1]) => final_price = two_way
            /\ final_price # two_way =>
                  /\ final_price = ali_rec_price
                  /\ LessEq(m, r)
                  /\ Less(r, Scaled(m, price_discount.n, price_discount.d))

\* C26 witness: under the default factor a price between the discounted
\* minimum and the minimum comes back through the second branch.
C26_Witness ==
    /\ finalPc = "done"
    /\ price_discount = [n |-> 95, d |-> 100]
    /\ amazon_min_price = <<"1", "0", ".", "0", "0">>
    /\ ali_rec_price = <<"$", "9", ".", "6", "0">>
    /\ final_price = ali_rec_price

(***************************************************************************)
(* The price probe: AliExpressScraper._extract_sku_prices.  The page is    *)
(* the price text it displays now, which it may replace at any moment; a   *)
(* lookup of the price element yields that text (after the removal of      *)
(* "US $" and strip()) or raises.  history_price is read beside            *)
(* current_price by the same lookups and is left out of the records.       *)
(***************************************************************************)
\* max_wait_time = 3.0 and wait_interval = 0.2 seconds, in milliseconds.
\* (Adding 0.2 fifteen times in floats gives 3.0000000000000004, so the
\* float loop makes the same fifteen passes as the exact one.)
MAX_WAIT_MS == 3000
WAIT_INTERVAL_MS == 200

\* The price texts the page displays.
ShownPrices == {<<"1">>, <<"2">>}

\* combo.get("name", "") and combo.get("image_url", "") of the i-th combination.
SkuName(i) == <<"s", CHOOSE c \in Digits : DigitValue(c) = i>>

SkuImage(i) == <<"i", CHOOSE c \in Digits : DigitValue(c) = i>>

\* previous_price = default_current_price: the text the wait loop compares
\* with.  (The assignment inside the loop is followed by break.)
previous_price == default_current_price

\* time.sleep(wait_interval); waited += wait_interval
SleptHalf(w) == w + WAIT_INTERVAL_MS \div 2

Slept(w) == w + WAIT_INTERVAL_MS

\* The final check: the text read replaces current_price, a failed read
\* leaves it alone.
FinalPriceOrNA(found, text, kept) == IF found THEN text ELSE NA

FinalPrice(found, text, kept) == IF found THEN text ELSE kept

\* The records appended by the handler of the outer try.
FallbackRecords ==
    [i \in 1..Len(probe_combos) |->
        [name |-> SkuName(i), image_url |-> SkuImage(i), current_price |-> NA]]

\* An exception reaches the handler of the outer try: it prints unless the
\* mode is silent, then appends a record for every combination to the list
\* as it stands.  When its own print raises, the exception leaves the call.
ProbeRaise(handler_raises) ==
    IF probe_mode # "silent" /\ handler_raises
       THEN /\ probePc' = "raised"
            /\ UNCHANGED sku_data_with_prices
       ELSE /\ probePc' = "done"
            /\ sku_data_with_prices' = sku_data_with_prices \o FallbackRecords

\* From the entry up to the loop over the combinations: the empty list
\* returns at once, the default price is read once, and the detailed and
\* debug modes print (a print can raise: closed stream, unencodable text).
ReadDefault ==
    /\ probePc = "start"
    /\ IF probe_combos = <<>>
          THEN /\ probePc' = "done"
               /\ UNCHANGED <<default_current_price, combo_at, sku_data_with_prices>>
          ELSE \E found \in BOOLEAN, print_raises \in BOOLEAN,
                  handler_raises \in BOOLEAN :
                  /\ default_current_price' = IF found THEN shown ELSE NA
                  /\ IF probe_mode # "silent" /\ print_raises
                        THEN /\ ProbeRaise(handler_raises)
                             /\ UNCHANGED combo_at
                        ELSE /\ probePc' = "combo"
                             /\ combo_at' = 1
                             /\ UNCHANGED sku_data_with_prices
    /\ UNCHANGED <<probe_mode, probe_combos, shown, sku_price, waited, polls,
                   changed, shown_before, final_text>>
    /\ UNCHANGED <<runVars, enumVars, finalVars, statsVars, parseVars,
                   resolveVars, normVars, fieldVars, collectVars, discountVars,
                   lateVars>>

\* The head of one iteration: current_price starts from the default, then
\* the elements of the combination are scrolled to and clicked.  A click
\* that fails is skipped; the scroll to the first element raising leaves the
\* inner try.  The debug mode prints in the inner handler and for a
\* combination without elements, outside the inner try.
SelectCombo ==
    /\ probePc = "combo"
    /\ sku_price' = default_current_price
    /\ waited' = 0
    /\ polls' = 0
    /\ changed' = FALSE
    /\ shown_before' = shown
    /\ final_text' = None
    /\ \E scrolled \in BOOLEAN, print_raises \in BOOLEAN,
          handler_raises \in BOOLEAN :
          IF probe_combos[combo_at] /\ scrolled
             THEN /\ probePc' = "poll"
                  /\ UNCHANGED sku_data_with_prices
             ELSE IF probe_mode = "debug" /\ print_raises
                     THEN ProbeRaise(handler_raises)
                     ELSE /\ probePc' = "append"
                          /\ UNCHANGED sku_data_with_prices
    /\ UNCHANGED <<probe_mode, probe_combos, shown, default_current_price,
                   combo_at>>
    /\ UNCHANGED <<runVars, enumVars, finalVars, statsVars, parseVars,
                   resolveVars, normVars, fieldVars, collectVars, discountVars,
                   lateVars>>

\* One pass of "while waited < max_wait_time": a text different from
\* previous_price is taken and the loop is left; otherwise, and when the
\* lookup raises, the loop sleeps and counts the interval.
PollPrice ==
    /\ probePc = "poll"
    /\ waited < MAX_WAIT_MS
    /\ polls' = polls + 1
    /\ \E found \in BOOLEAN :
          IF found /\ shown # previous_price
             THEN /\ sku_price' = shown
                  /\ changed' = TRUE
                  /\ probePc' = "final"
                  /\ UNCHANGED waited
             ELSE /\ waited' = Slept(waited)
                  /\ probePc' = IF waited' < MAX_WAIT_MS THEN "poll" ELSE "final"
                  /\ UNCHANGED <<sku_price, changed>>
    /\ UNCHANGED <<probe_mode, probe_combos, shown, default_current_price,
                   combo_at, shown_before, final_text, sku_data_with_prices>>
    /\ UNCHANGED <<runVars, enumVars, finalVars, statsVars, parseVars,
                   resolveVars, normVars, fieldVars, collectVars, discountVars,
                   lateVars>>

\* The final check after the loop, and the report printed inside the inner
\* try: when that print raises, the inner handler runs, and in the debug
\* mode its own print raises out of the loop.
FinalCheck ==
    /\ probePc = "final"
    /\ \E found \in BOOLEAN, print_raises \in BOOLEAN,
          handler_raises \in BOOLEAN :
          /\ final_text' = IF found THEN shown ELSE None
          /\ sku_price' = FinalPrice(found, shown, sku_price)
          /\ IF probe_mode = "debug" /\ print_raises
                THEN ProbeRaise(handler_raises)
                ELSE /\ probePc' = "append"
                     /\ UNCHANGED sku_data_with_prices
    /\ UNCHANGED <<probe_mode, probe_combos, shown, default_current_price,
                   combo_at, waited, polls, changed, shown_before>>
    /\ UNCHANGED <<runVars, enumVars, finalVars, statsVars, parseVars,
                   resolveVars, normVars, fieldVars, collectVars, discountVars,
                   lateVars>>

\* The tail of one iteration: the record is appended and the loop moves on.
AppendSku ==
    /\ probePc = "append"
    /\ sku_data_with_prices' =
          Append(sku_data_with_prices,
                 [name |-> SkuName(combo_at), image_url |-> SkuImage(combo_at),
                  current_price |-> sku_price])
    /\ IF combo_at < Len(probe_combos)
          THEN /\ combo_at' = combo_at + 1
               /\ probePc' = "combo"
          ELSE /\ probePc' = "done"
               /\ UNCHANGED combo_at
    /\ UNCHANGED <<probe_mode, probe_combos, shown, default_current_price,
                   sku_price, waited, polls, changed, shown_before, final_text>>
    /\ UNCHANGED <<runVars, enumVars, finalVars, statsVars, parseVars,
                   resolveVars, normVars, fieldVars, collectVars, discountVars,
                   lateVars>>

\* The page replaces the price text it displays.
PageShows ==
    /\ probePc \in {"start", "combo", "poll", "final", "append"}
    /\ \E text \in ShownPrices \ {shown} : shown' = text
    /\ UNCHANGED <<probe_mode, probe_combos, default_current_price, combo_at,
                   sku_price, waited, polls, changed, shown_before, final_text,
                   sku_data_with_prices, probePc>>
    /\ UNCHANGED <<runVars, enumVars, finalVars, statsVars, parseVars,
                   resolveVars, normVars, fieldVars, collectVars, discountVars,
                   lateVars>>

ProbeInit ==
    /\ RunIdle
    /\ EnumIdle /\ FinalIdle /\ StatsIdle /\ ParseIdle /\ ResolveIdle
    /\ NormIdle /\ FieldIdle /\ CollectIdle /\ DiscountIdle /\ LateIdle
    /\ probe_mode \in Modes
    /\ \E n \in 0..MaxCombos : probe_combos \in [1..n -> BOOLEAN]
    /\ shown \in ShownPrices
    /\ default_current_price = NA
    /\ combo_at = 0
    /\ sku_price = NA
    /\ waited = 0
    /\ polls = 0
    /\ changed = FALSE
    /\ shown_before = <<>>
    /\ final_text = None
    /\ sku_data_with_prices = <<>>
    /\ probePc = "start"

ProbeWorker ==
    ReadDefault \/ SelectCombo \/ PollPrice \/ FinalCheck \/ AppendSku

ProbeNext == ProbeWorker \/ PageShows

ProbeSpec == ProbeInit /\ [][ProbeNext]_vars

\* The call keeps running: the steps of _extract_sku_prices are taken.
ProbeLiveSpec == ProbeSpec /\ WF_vars(ProbeWorker)

(***************************************************************************)
(* Properties of the price probe.                                          *)
(***************************************************************************)
\* C27: the wait loop of a combination is left early only on a text that
\* differs from the text displayed immediately before that combination was
\* applied; a price left by the previous combination is no change.
C27_PerCombinationBaseline ==
    [][(probePc = "poll" /\ changed') => sku_price' # shown_before]_vars

\* The number of passes the wait loop can make: ceiling over interval.
PollCeiling == MAX_WAIT_MS \div WAIT_INTERVAL_MS

\* The iteration is about to append its record without the wait loop having
\* seen a change: the loop ran to its ceiling or was never entered.
NoChangeSeen == probePc = "append" /\ ~changed

\* C28 (as claimed): when the wait loop reaches its ceiling without a
\* change, or the interactions failed, the price recorded for the
\* combination is the default price read before the probe.
C28_DefaultAtCeiling ==
    NoChangeSeen => sku_price = default_current_price

\* C28 (amended): without a change seen, the loop was skipped or made all
\* its passes; the price recorded is the text read by the final check after
\* the loop when that read succeeds, and the default price when it fails or
\* when the loop and the final check were skipped.
C28_FinalCheckAtCeiling ==
    NoChangeSeen =>
        /\ polls \in {0, PollCeiling}
        /\ polls = 0 => final_text = None
        /\ sku_price = IF final_text = None THEN default_current_price
                                            ELSE final_text

\* C28 witness: the loop made all its passes on a page that kept showing
\* the default price of a second combination, and the final check read it.
C28_Witness ==
    /\ NoChangeSeen
    /\ combo_at = 2
    /\ polls = PollCeiling
    /\ default_current_price = <<"1">>
    /\ final_text = <<"1">>
    /\ sku_price = <<"1">>

\* The record of the i-th combination is in place: it carries the name and
\* the image reference of that combination.
RecordOf(i) ==
    /\ sku_data_with_prices[i].name = SkuName(i)
    /\ sku_data_with_prices[i].image_url = SkuImage(i)

\* C29: the list returned holds exactly one record per combination, in the
\* order of the combinations, each with the name and the image reference of
\* its combination, on every path that returns, the fallback included.
C29_OneRecordPerCombination ==
    probePc = "done" =>
        /\ Len(sku_data_with_prices) = Len(probe_combos)
        /\ \A i \in 1..Len(probe_combos) : RecordOf(i)

\* The call has ended: it returned its list or was left by an exception.
ProbeEnded == probePc \in {"done", "raised"}

\* C30: whatever the page does, the wait loop of a combination makes at most
\* ceiling / interval lookups, and the call of the probe ends.
C30_BoundedPollsAndTermination ==
    /\ [](polls <= PollCeiling)
    /\ <>ProbeEnded

\* C30 witness: the price element was missing throughout (the default read,
\* every lookup of the loop and the final check failed), the loop of the
\* last of several combinations made all its passes, and the probe returned.
C30_Witness ==
    /\ probePc = "done"
    /\ Len(probe_combos) > 1
    /\ Len(sku_data_with_prices) = Len(probe_combos)
    /\ default_current_price = NA
    /\ ~changed
    /\ final_text = None
    /\ polls = PollCeiling

(***************************************************************************)
(* The specifications below start from the idle values of everything the   *)
(* specifications above use.                                               *)
(***************************************************************************)
earlyVars == <<enumVars, finalVars, statsVars, parseVars, resolveVars, normVars,
              fieldVars, collectVars, discountVars, probeVars>>

EarlyIdle ==
    /\ EnumIdle /\ FinalIdle /\ StatsIdle /\ ParseIdle /\ ResolveIdle
    /\ NormIdle /\ FieldIdle /\ CollectIdle /\ DiscountIdle /\ ProbeIdle

(***************************************************************************)
(* The click loop of _extract_sku_prices: the elements of one combination  *)
(* are handled in order; each driver call can raise.                       *)
(***************************************************************************)
\* The class attributes of the option elements.
ClassNames ==
    { None, <<>>,
      <<"s", "e", "l", "e", "c", "t", "e", "d">>,
      <<"i", "t", "e", "m", " ", "A", "c", "t", "i", "v", "e">>,
      <<"i", "t", "e", "m">> }

\* str.lower(), on the letters of the two words looked for.
ClassLowerChar(c) ==
    CASE c = "S" -> "s" [] c = "E" -> "e" [] c = "L" -> "l" [] c = "C" -> "c"
      [] c = "T" -> "t" [] c = "D" -> "d" [] c = "A" -> "a" [] c = "I" -> "i"
      [] c = "V" -> "v" [] OTHER -> c

\* word in text
Contains(text, word) ==
    \E i \in 1..(Len(text) - Len(word) + 1) :
        SubSeq(text, i, i + Len(word) - 1) = word

\* element_class = element.get_attribute("class") or ""; is_selected when
\* "selected" or "active" is in element_class.lower().
IsSelectedExact(class) ==
    LET element_class == IF class = None THEN <<>> ELSE class
    IN  \/ Contains(element_class, <<"s", "e", "l", "e", "c", "t", "e", "d">>)
        \/ Contains(element_class, <<"a", "c", "t", "i", "v", "e">>)

IsSelected(class) ==
    LET element_class == IF class = None THEN <<>> ELSE class
        lowered == [i \in 1..Len(element_class) |->
                       ClassLowerChar(element_class[i])]
    IN  \/ Contains(lowered, <<"s", "e", "l", "e", "c", "t", "e", "d">>)
        \/ Contains(lowered, <<"a", "c", "t", "i", "v", "e">>)

\* The scroll to the first element of the combination: when it raises, the
\* inner try of the iteration is left and no element is handled.
ScrollToFirst ==
    /\ clickPc = "start"
    /\ \E scrolled \in BOOLEAN :
          IF scrolled /\ option_classes # <<>>
             THEN clickPc' = "click" /\ click_at' = 1
             ELSE clickPc' = "done" /\ UNCHANGED click_at
    /\ UNCHANGED <<option_classes, clicked, read_failed, scroll_failed>>
    /\ UNCHANGED <<runVars, earlyVars, bulletVars, batchVars, tailVars>>

\* One pass of "for elem_idx, element in enumerate(combo_elements)": the
\* class is read (a read that raises counts as not selected); an element
\* not selected is scrolled to and clicked; an exception of the scroll or of
\* the click is caught and the loop goes on.
ClickElement ==
    /\ clickPc = "click"
    /\ \E class_read \in BOOLEAN, scrolled \in BOOLEAN :
          LET is_selected == class_read /\ IsSelected(option_classes[click_at])
          IN  /\ read_failed' = IF class_read THEN read_failed
                                ELSE read_failed \cup {click_at}
              /\ IF is_selected
                    THEN UNCHANGED <<clicked, scroll_failed>>
                    ELSE IF scrolled
                            THEN /\ clicked' = Append(clicked, click_at)
                                 /\ UNCHANGED scroll_failed
                            ELSE /\ scroll_failed' = scroll_failed \cup {click_at}
                                 /\ UNCHANGED clicked
    /\ IF click_at < Len(option_classes)
          THEN click_at' = click_at + 1 /\ UNCHANGED clickPc
          ELSE clickPc' = "done" /\ UNCHANGED click_at
    /\ UNCHANGED option_classes
    /\ UNCHANGED <<runVars, earlyVars, bulletVars, batchVars, tailVars>>

ClickInit ==
    /\ RunIdle
    /\ EarlyIdle
    /\ BulletIdle /\ BatchIdle /\ TailIdle
    /\ \E n \in 1..MaxRows : option_classes \in [1..n -> ClassNames]
    /\ click_at = 0
    /\ clicked = <<>>
    /\ read_failed = {}
    /\ scroll_failed = {}
    /\ clickPc = "start"

ClickNext == ScrollToFirst \/ ClickElement

ClickSpec == ClickInit /\ [][ClickNext]_vars

(***************************************************************************)
(* Properties of the click loop.                                           *)
(***************************************************************************)
\* The positions of a set, in increasing order.
RECURSIVE Ascending(_, _)
Ascending(positions, upto) ==
    IF upto = 0 THEN <<>>
    ELSE IF upto \in positions
            THEN Append(Ascending(positions, upto - 1), upto)
            ELSE Ascending(positions, upto - 1)

\* The class of the i-th element marks it as selected.
Marked(i) ==
    /\ option_classes[i] # None
    /\ \/ Contains(option_classes[i], <<"s", "e", "l", "e", "c", "t", "e", "d">>)
       \/ Contains(option_classes[i], <<"S", "e", "l", "e", "c", "t", "e", "d">>)
       \/ Contains(option_classes[i], <<"a", "c", "t", "i", "v", "e">>)
       \/ Contains(option_classes[i], <<"A", "c", "t", "i", "v", "e">>)

\* C31 (as claimed): no click is issued on an element marked as selected,
\* and the clicks issued are exactly the elements not marked, in order.
C31_ClicksExactlyUnselected ==
    clickPc = "done" =>
        clicked = Ascending({i \in 1..Len(option_classes) : ~Marked(i)},
                            Len(option_classes))

\* C31 (amended): the clicks issued are, in order, the elements whose class
\* was read as not marked or could not be read, except those whose scroll
\* into view raised; none is issued when the scroll to the first element
\* raised.
C31_ClicksUnselectedReached ==
    clickPc = "done" =>
        clicked =
            IF click_at = 0 THEN <<>>
            ELSE Ascending({i \in 1..Len(option_classes) :
                               /\ ~Marked(i) \/ i \in read_failed
                               /\ i \notin scroll_failed},
                           Len(option_classes))

\* C31 witness: of several elements the first is marked as selected (in
\* capitals) and is passed over, a later one is not and is clicked, every
\* driver call having succeeded.
C31_Witness ==
    /\ clickPc = "done"
    /\ Len(option_classes) > 1
    /\ option_classes[1] = <<"i", "t", "e", "m", " ", "A", "c", "t", "i", "v", "e">>
    /\ option_classes[Len(option_classes)] = <<"i", "t", "e", "m">>
    /\ read_failed = {}
    /\ scroll_failed = {}
    /\ clicked = <<Len(option_classes)>>

(***************************************************************************)
(* A list-valued field of the Amazon scraper: _extract_feature_bullets.    *)
(* The page gives, for each selector of the list in order, the texts of    *)
(* the elements found, or raises.                                          *)
(***************************************************************************)
\* return bullets[:10]
BULLET_LIMIT == 10

\* The element texts: two feature lines, a "see more" link, a short text.
BulletTexts ==
    { <<"B", "u", "l", "l", "e", "t", " ", "A">>,
      <<" ", "B", "u", "l", "l", "e", "t", " ", "B">>,
      <<"S", "e", "e", " ", "m", "o", "r", "e">>,
      <<"t", "i", "n", "y">> }

\* What the lookup of one selector yields.
BulletYields ==
    {[kind |-> "raises", texts |-> <<>>]} \cup
    {[kind |-> "found", texts |-> t] :
        t \in UNION {[1..n -> BulletTexts] : n \in 0..MaxBullets}}

\* Three selectors are tried.
BulletPages == [1..3 -> BulletYields]

\* text.lower(), on the capitals of the texts looked for.
BulletLower(text) ==
    [i \in 1..Len(text) |->
        CASE text[i] = "S" -> "s" [] text[i] = "M" -> "m" [] OTHER -> text[i]]

\* The test on one stripped text: not empty, longer than five characters,
\* not already in the list, and neither of the two phrases in it.
BulletKept(text, found) ==
    /\ text # <<>>
    /\ Len(text) > 5
    /\ \A i \in 1..Len(found) : found[i] # text
    /\ ~Contains(BulletLower(text), <<"s", "e", "e", " ", "m", "o", "r", "e">>)
    /\ ~Contains(BulletLower(text),
                 <<"m", "a", "k", "e", " ", "s", "u", "r", "e", " ", "t", "h",
                   "i", "s", " ", "f", "i", "t", "s">>)

\* The loop over the elements of one selector, appending to the list.
RECURSIVE AddBullets(_, _, _)
AddBullets(texts, i, found) ==
    IF i > Len(texts) THEN found
    ELSE LET text == Strip(texts[i])
         IN  AddBullets(texts, i + 1,
                        IF BulletKept(text, found) THEN Append(found, text)
                        ELSE found)

\* The loop over the selectors: a lookup that raises is passed over, and
\* every selector is tried, whatever the list holds by then.
RECURSIVE CollectBullets(_, _, _)
CollectBullets(page, k, found) ==
    IF k > Len(page) THEN found
    ELSE CollectBullets(page, k + 1,
             IF page[k].kind = "raises" THEN found
             ELSE AddBullets(page[k].texts, 1, found))

ExtractFeatureBullets ==
    /\ bulletPc = "page"
    /\ bullets' = LET found == CollectBullets(bullet_page, 1, <<>>)
                  IN  SubSeq(found, 1, IF Len(found) < BULLET_LIMIT
                                          THEN Len(found) ELSE BULLET_LIMIT)
    /\ bulletPc' = "done"
    /\ UNCHANGED bullet_page
    /\ UNCHANGED <<runVars, earlyVars, clickVars, batchVars, tailVars>>

BulletInit ==
    /\ RunIdle
    /\ EarlyIdle
    /\ ClickIdle /\ BatchIdle /\ TailIdle
    /\ bullet_page \in BulletPages
    /\ bullets = <<>>
    /\ bulletPc = "page"

BulletNext == ExtractFeatureBullets

BulletSpec == BulletInit /\ [][BulletNext]_vars

(***************************************************************************)
(* Properties of the list-valued fields.                                   *)
(***************************************************************************)
\* The matches of the k-th selector on their own, after the filter.
MatchesOf(k) ==
    IF bullet_page[k].kind = "raises" THEN <<>>
    ELSE AddBullets(bullet_page[k].texts, 1, <<>>)

\* C33: the list resolved holds only the matches of the first selector
\* whose filtered result is not empty; later selectors add nothing.
C33_FirstNonEmptyOnly ==
    bulletPc = "done" =>
        IF \E k \in 1..Len(bullet_page) : MatchesOf(k) # <<>>
           THEN bullets = MatchesOf(CHOOSE k \in 1..Len(bullet_page) :
                                       /\ MatchesOf(k) # <<>>
                                       /\ \A j \in 1..(k - 1) : MatchesOf(j) = <<>>)
           ELSE bullets = <<>>

(***************************************************************************)
(* The batch loop: scrape_search_results of both scrapers, from the        *)
(* collection of the links to the end of the loop over the targets.  A     *)
(* link is named by a number; links_found holds the links after clean_url. *)
(***************************************************************************)
\* The product links a results page can show: one more than the largest
\* configured maximum.
LinkNames == 1..(MaxTargets + 1)

\* dict.fromkeys(links_found): the first occurrence of each link, in order.
RECURSIVE UniqueLinks(_)
UniqueLinks(links) ==
    IF links = <<>> THEN <<>>
    ELSE LET front == UniqueLinks(SubSeq(links, 1, Len(links) - 1))
             last == links[Len(links)]
         IN  IF \E i \in 1..Len(front) : front[i] = last THEN front
             ELSE Append(front, last)

\* list(set(links_found)): the distinct links in an order of the set's own.
SetOrders(links) ==
    LET distinct == {links[i] : i \in 1..Len(links)}
    IN  {order \in [1..Cardinality(distinct) -> distinct] :
            \A i, j \in 1..Cardinality(distinct) : order[i] = order[j] => i = j}

\* unique_links[:config.MAX_PRODUCTS_TO_SCRAPE], for a maximum of zero or more.
FirstLinksUncut(unique_links, maximum) == unique_links

FirstLinks(unique_links, maximum) ==
    SubSeq(unique_links, 1,
           IF Len(unique_links) < maximum THEN Len(unique_links) ELSE maximum)

\* The links are made unique and cut to the maximum.  Amazon keeps the page
\* order and returns at once when there is no link.
SelectTargets ==
    /\ batchPc = "page"
    /\ \E unique_links \in IF batch_source = "amazon"
                              THEN {UniqueLinks(links_found)}
                              ELSE SetOrders(UniqueLinks(links_found)) :
          batch_targets' = FirstLinks(unique_links, max_products)
    /\ batchPc' = IF batch_targets' = <<>> THEN "completed" ELSE "loop"
    /\ UNCHANGED <<batch_source, max_products, links_found, processed>>
    /\ UNCHANGED <<runVars, earlyVars, clickVars, bulletVars, tailVars>>

\* One pass of the loop over the targets: scrape_product_details is called
\* with the next link and returns, or an exception leaves it (a failed
\* navigation, a driver closed by a stop request) and ends the batch.
ProcessTarget ==
    /\ batchPc = "loop"
    /\ processed' = Append(processed, batch_targets[Len(processed) + 1])
    /\ \E returned \in BOOLEAN :
          batchPc' = IF ~returned THEN "raised"
                     ELSE IF Len(processed') < Len(batch_targets) THEN "loop"
                     ELSE "completed"
    /\ UNCHANGED <<batch_source, max_products, links_found, batch_targets>>
    /\ UNCHANGED <<runVars, earlyVars, clickVars, bulletVars, tailVars>>

BatchInit ==
    /\ RunIdle
    /\ EarlyIdle
    /\ ClickIdle /\ BulletIdle /\ TailIdle
    /\ batch_source \in Sources
    /\ max_products \in 0..MaxTargets
    /\ \E n \in 0..(MaxTargets + 2) : links_found \in [1..n -> LinkNames]
    /\ batch_targets = <<>>
    /\ processed = <<>>
    /\ batchPc = "page"

BatchNext == SelectTargets \/ ProcessTarget

BatchSpec == BatchInit /\ [][BatchNext]_vars

(***************************************************************************)
(* Properties of the batch loop.                                           *)
(***************************************************************************)
\* C34: at most the configured maximum of targets is processed, no link is
\* processed twice, the targets are links of the page, and a batch that
\* ends without an escaping error has processed every target selected: as
\* many as the maximum, or every distinct link when there are fewer.
C34_BoundedOnceComplete ==
    /\ Len(processed) <= max_products
    /\ \A i, j \in 1..Len(processed) : processed[i] = processed[j] => i = j
    /\ \A i \in 1..Len(processed) :
          \E k \in 1..Len(links_found) : links_found[k] = processed[i]
    /\ batchPc = "completed" =>
          /\ processed = batch_targets
          /\ LET distinct == Cardinality({links_found[k] : k \in 1..Len(links_found)})
             IN  Len(processed) = IF distinct < max_products THEN distinct
                                  ELSE max_products

\* C34 witness: the page repeats a link and shows more distinct links than
\* the maximum; the batch ended having processed as many as the maximum,
\* more than one.
C34_Witness ==
    /\ batchPc = "completed"
    /\ max_products > 1
    /\ Len(processed) = max_products
    /\ Cardinality({links_found[k] : k \in 1..Len(links_found)}) > max_products
    /\ \E i, j \in 1..Len(links_found) : i # j /\ links_found[i] = links_found[j]

(***************************************************************************)
(* LoggingStdout: the stream that replaces sys.stdout during a run, over   *)
(* the lines the scrapers print around the persistence of a record.  A     *)
(* text is a sequence of pieces; "[disk]" stands for the floppy-disk sign  *)
(* U+1F4BE.                                                                *)
(***************************************************************************)
Newline == "\n"

\* print(f"[disk] Saved locally: {prod_path}")
SavedLine == <<"[disk]", " ", "Saved locally", ": ", "product.json">>

\* print(f"   [disk] Saved HTML to: {filepath}") of debug_save_html
HtmlSavedLine == <<" ", "[disk]", " ", "Saved HTML to", ": ", "container.html">>

\* print(f"   [!] Failed to save HTML: {e}") of debug_save_html
HtmlFailedLine == <<" ", "[!]", " ", "Failed to save HTML", ": ">>

\* print("Processing images...")
ProcessingLine == <<"[img]", " ", "Processing images...">>

\* print(f"[x] Failed to save local JSON: {e}")
SaveFailedLine == <<"[x]", " ", "Failed to save local JSON", ": ">>

\* print(f"[x] Error scraping details: {e}"), or print(f"Error: {e}") when silent
ErrorLine(silent) ==
    IF silent THEN <<"Error", ": ">> ELSE <<"[x]", " ", "Error scraping details", ": ">>

\* ''.join(self.buffer).strip()
FullText(buffer) ==
    LET joined == Flatten(buffer)
        blank(c) == c \in {" ", Newline}
        solid == {i \in 1..Len(joined) : ~blank(joined[i])}
    IN  IF solid = {} THEN <<>>
        ELSE SubSeq(joined,
                    CHOOSE i \in solid : \A j \in solid : i <= j,
                    CHOOSE i \in solid : \A j \in solid : j <= i)

\* 'Saved locally' in full_text or '[disk]' in full_text
IsItemLine(full_text) ==
    \E i \in 1..Len(full_text) : full_text[i] \in {"Saved locally", "[disk]"}

\* LoggingStdout.write(text), on the stream [buffer, logs, items].
Write(stream, text) ==
    IF text = <<>> THEN stream
    ELSE LET buffer == Append(stream.buffer, text)
             full_text == FullText(buffer)
         IN  IF \E i \in 1..Len(text) : text[i] = Newline
                THEN [buffer |-> <<>>,
                      logs |-> IF full_text # <<>> THEN stream.logs + 1
                               ELSE stream.logs,
                      items |-> IF full_text # <<>> /\ IsItemLine(full_text)
                                THEN stream.items + 1 ELSE stream.items]
                ELSE [stream EXCEPT !.buffer = buffer]

\* print(text): the text is written, then the line end.
PrintLine(stream, text) == Write(Write(stream, text), <<Newline>>)

Stream == [buffer |-> stdout_buffer, logs |-> log_messages, items |-> item_scraped]

SetStream(stream) ==
    /\ stdout_buffer' = stream.buffer
    /\ log_messages' = stream.logs
    /\ item_scraped' = stream.items

\* scrape_product_details up to the description: in debug mode the
\* AliExpress scraper saves the description container found in the regular
\* DOM with debug_save_html; an exception out of the pipeline is reported by
\* the handler of the outer try and the target is left.
DescribeTarget ==
    /\ logPc = "describe"
    /\ \E container \in BOOLEAN, written \in BOOLEAN, aborted \in BOOLEAN :
          LET saves == log_site = "aliexpress" /\ log_mode = "debug" /\ container
              after_html == IF saves
                               THEN PrintLine(Stream, IF written THEN HtmlSavedLine
                                                      ELSE HtmlFailedLine)
                               ELSE Stream
          IN  IF aborted
                 THEN /\ SetStream(PrintLine(after_html, ErrorLine(log_mode = "silent")))
                      /\ logPc' = IF log_target < MaxTargets THEN "describe" ELSE "done"
                      /\ log_target' = log_target + 1
                 ELSE /\ SetStream(after_html)
                      /\ logPc' = "save"
                      /\ UNCHANGED log_target
    /\ UNCHANGED <<log_mode, log_site, records_written>>
    /\ UNCHANGED <<runVars, earlyVars, clickVars, bulletVars, batchVars,
                   priceVars, authVars>>

\* scrape_product_details, from "PROCESS IMAGES" to "SAVE LOCALLY": when the
\* image processing is available its line is printed, the JSON file is
\* written and its line is printed; nothing is printed in silent mode.
SaveLocally ==
    /\ logPc = "save"
    /\ \E ok \in BOOLEAN, processing \in BOOLEAN :
          LET before == IF processing THEN PrintLine(Stream, ProcessingLine)
                        ELSE Stream
          IN  /\ records_written' = IF ok THEN records_written + 1
                                    ELSE records_written
              /\ SetStream(IF log_mode = "silent" THEN Stream
                           ELSE PrintLine(before, IF ok THEN SavedLine
                                                  ELSE SaveFailedLine))
    /\ logPc' = IF log_target < MaxTargets THEN "describe" ELSE "done"
    /\ log_target' = log_target + 1
    /\ UNCHANGED <<log_mode, log_site>>
    /\ UNCHANGED <<runVars, earlyVars, clickVars, bulletVars, batchVars,
                   priceVars, authVars>>

LogInit ==
    /\ RunIdle
    /\ EarlyIdle
    /\ ClickIdle /\ BulletIdle /\ BatchIdle
    /\ PriceIdle /\ AuthIdle
    /\ log_mode \in Modes
    /\ log_site \in Sources
    /\ stdout_buffer = <<>>
    /\ log_messages = 0
    /\ item_scraped = 0
    /\ records_written = 0
    /\ log_target = 1
    /\ logPc = "describe"

LogNext == DescribeTarget \/ SaveLocally

LogSpec == LogInit /\ [][LogNext]_vars

\* C37 (as claimed): in every mode, item_scraped has fired once per record
\* written and for nothing else.
C37_OncePerRecord == item_scraped = records_written

\* The same in the detailed mode alone.
C37_OncePerRecordDetailed == log_mode = "detailed" => item_scraped = records_written

\* A record written in silent mode without a notification, and a
\* notification in debug mode without a record.
C37_SilentMissed == ~(log_mode = "silent" /\ records_written > item_scraped)

C37_DebugExtra == ~(log_mode = "debug" /\ item_scraped > records_written)

(***************************************************************************)
(* The product-level price of an AliExpress target: the default price is   *)
(* read at the start of _extract_sku_prices, the combinations are applied, *)
(* and data['current_price'] is read by the field extraction afterwards.   *)
(***************************************************************************)
US == <<"U", "S", " ", "$">>

\* The texts of the price element.
RawPriceTexts == {US \o <<"1">>, US \o <<"2">>, US, <<"3", " ">>}

\* text.replace("US $", "")
RECURSIVE RemoveUS(_)
RemoveUS(text) ==
    IF Len(text) < Len(US) THEN text
    ELSE IF SubSeq(text, 1, Len(US)) = US
            THEN RemoveUS(SubSeq(text, Len(US) + 1, Len(text)))
            ELSE <<Head(text)>> \o RemoveUS(Tail(text))

\* current_price_el.text.replace("US $", "").strip()
CleanPrice(text) == Strip(RemoveUS(text))

\* data['current_price']: the text of the element found, "N/A" when the
\* lookup raises.
ProductPriceOrEmpty(found, text) == IF found THEN CleanPrice(text) ELSE <<>>

ProductPrice(found, text) == IF found THEN CleanPrice(text) ELSE NA

\* _extract_sku_prices: default_current_price
ReadDefaultPrice ==
    /\ pricePc = "page"
    /\ \E found \in BOOLEAN :
          price_default' = IF found THEN CleanPrice(price_page) ELSE NA
    /\ pricePc' = "probe"
    /\ UNCHANGED <<price_page, combos_applied, applied_price, data_current_price,
                   data_rec_price>>
    /\ UNCHANGED <<runVars, earlyVars, clickVars, bulletVars, batchVars,
                   logVars, authVars>>

\* _extract_sku_prices: a combination is applied and the page displays its
\* price.
ApplyCombination ==
    /\ pricePc = "probe"
    /\ combos_applied < MaxCombos
    /\ \E text \in RawPriceTexts :
          /\ price_page' = text
          /\ applied_price' = text
    /\ combos_applied' = combos_applied + 1
    /\ UNCHANGED <<price_default, data_current_price, data_rec_price, pricePc>>
    /\ UNCHANGED <<runVars, earlyVars, clickVars, bulletVars, batchVars,
                   logVars, authVars>>

\* scrape_product_details, "B. PRICES", after the probe has returned.
ReadProductPrice ==
    /\ pricePc = "probe"
    /\ \E found \in BOOLEAN :
          data_current_price' = ProductPrice(found, price_page)
    /\ pricePc' = "stats"
    /\ UNCHANGED <<price_page, price_default, combos_applied, applied_price,
                   data_rec_price>>
    /\ UNCHANGED <<runVars, earlyVars, clickVars, bulletVars, batchVars,
                   logVars, authVars>>

\* data["ali_express_rec_price"] = price_stats["ali_express_rec_price"]
StoreRecPrice ==
    /\ pricePc = "stats"
    /\ data_rec_price' = OrNA(data_current_price)
    /\ pricePc' = "done"
    /\ UNCHANGED <<price_page, price_default, combos_applied, applied_price,
                   data_current_price>>
    /\ UNCHANGED <<runVars, earlyVars, clickVars, bulletVars, batchVars,
                   logVars, authVars>>

PriceInit ==
    /\ RunIdle
    /\ EarlyIdle
    /\ ClickIdle /\ BulletIdle /\ BatchIdle
    /\ LogIdle /\ AuthIdle
    /\ price_page \in RawPriceTexts
    /\ price_default = <<>>
    /\ combos_applied = 0
    /\ applied_price = <<>>
    /\ data_current_price = <<>>
    /\ data_rec_price = <<>>
    /\ pricePc = "page"

PriceNext ==
    \/ ReadDefaultPrice
    \/ ApplyCombination
    \/ ReadProductPrice
    \/ StoreRecPrice

PriceSpec == PriceInit /\ [][PriceNext]_vars

MaxTicks == 5

ErrorCodes == {"NotAuthorizedException", "UserNotFoundException",
               "InternalErrorException"}

ErrorMessages == { <<"User", "is", "Disabled">>,
                   <<"Refresh", "Token", "has", "been", "revoked">>,
                   <<"Access", "Token", "has", "expired">> }

Replies ==
    {[kind |-> "ok"], [kind |-> "exception"]} \cup
    {[kind |-> "ClientError", code |-> c, message |-> m] :
        c \in ErrorCodes, m \in ErrorMessages}

\* str.lower(), on the words of the messages
LowerWord(w) ==
    CASE w = "User" -> "user" [] w = "Disabled" -> "disabled"
      [] w = "Refresh" -> "refresh" [] w = "Access" -> "access"
      [] w = "Token" -> "token" [] OTHER -> w

\* 'disabled' in error_message or 'revoked' in error_message
SaysRevoked(message) ==
    \E i \in 1..Len(message) : LowerWord(message[i]) \in {"disabled", "revoked"}

\* CognitoAuthService.validate_session: "True", "False" or the exception raised.
ValidateSession(token, reply) ==
    IF token = 0 THEN "False"
    ELSE IF reply.kind = "ok" THEN "True"
    ELSE IF reply.kind = "exception" THEN "False"
    ELSE IF reply.code = "NotAuthorizedException"
            THEN IF SaysRevoked(reply.message) THEN "AccessRevokedError" ELSE "False"
    ELSE IF reply.code = "UserNotFoundException" THEN "AccessRevokedError"
    ELSE "False"

\* CognitoAuthService.refresh_tokens: "ok" or the exception raised.
RefreshTokens(has_token, reply) ==
    IF ~has_token THEN "SessionExpiredError"
    ELSE IF reply.kind = "ok" THEN "ok"
    ELSE IF reply.kind = "exception" THEN "Exception"
    ELSE IF reply.code = "NotAuthorizedException" /\ SaysRevoked(reply.message)
            THEN "AccessRevokedError"
    ELSE "SessionExpiredError"

\* _validate_session: the except clauses that call _handle_access_revoked.
ExitsOnAnyError(result) == result \notin {"True", "False", "ok"}

ExitsOn(result) == result = "AccessRevokedError"

\* _handle_access_revoked: the timer is stopped, the user is logged out and
\* the application exits.
HandleAccessRevoked ==
    /\ session_timer' = FALSE
    /\ access_token' = 0
    /\ refresh_token' = FALSE
    /\ app_running' = FALSE
    /\ authPc' = "exited"

\* Application.run: after the login, _start_session_validation_timer.
StartTimer ==
    /\ authPc = "start"
    /\ session_timer' = TRUE
    /\ authPc' = "wait"
    /\ UNCHANGED <<access_token, refresh_token, app_running, ticks, is_valid,
                   refresh_result, revoked_raised>>
    /\ UNCHANGED <<runVars, earlyVars, clickVars, bulletVars, batchVars,
                   logVars, priceVars>>

\* The timer fires: _validate_session makes its first validate_session call.
Validate ==
    /\ authPc = "wait"
    /\ session_timer
    /\ ticks < MaxTicks
    /\ ticks' = ticks + 1
    /\ refresh_result' = "none"
    /\ \E reply \in Replies :
          LET result == ValidateSession(access_token, reply)
          IN  /\ is_valid' = result
              /\ revoked_raised' = (result = "AccessRevokedError")
              /\ IF ExitsOn(result) THEN HandleAccessRevoked
                 ELSE /\ authPc' = IF result = "False" THEN "refresh" ELSE "wait"
                      /\ UNCHANGED <<session_timer, access_token, refresh_token,
                                     app_running>>
    /\ UNCHANGED <<runVars, earlyVars, clickVars, bulletVars, batchVars,
                   logVars, priceVars>>

\* is_valid was False: refresh_tokens.  A refresh that succeeds stores the
\* new access token; any exception but AccessRevokedError ends the handler.
Refresh ==
    /\ authPc = "refresh"
    /\ \E reply \in Replies :
          LET result == RefreshTokens(refresh_token, reply)
          IN  /\ refresh_result' = result
              /\ revoked_raised' = (result = "AccessRevokedError")
              /\ IF ExitsOn(result) THEN HandleAccessRevoked
                 ELSE /\ access_token' = IF result = "ok" THEN access_token + 1
                                         ELSE access_token
                      /\ authPc' = IF result = "ok" THEN "revalidate" ELSE "wait"
                      /\ UNCHANGED <<session_timer, refresh_token, app_running>>
    /\ UNCHANGED <<ticks, is_valid>>
    /\ UNCHANGED <<runVars, earlyVars, clickVars, bulletVars, batchVars,
                   logVars, priceVars>>

\* After the refresh: validate_session once more, inside the same try.
Revalidate ==
    /\ authPc = "revalidate"
    /\ \E reply \in Replies :
          LET result == ValidateSession(access_token, reply)
          IN  /\ is_valid' = result
              /\ revoked_raised' = (result = "AccessRevokedError")
              /\ IF ExitsOn(result) THEN HandleAccessRevoked
                 ELSE /\ authPc' = "wait"
                      /\ UNCHANGED <<session_timer, access_token, refresh_token,
                                     app_running>>
    /\ UNCHANGED <<ticks, refresh_result>>
    /\ UNCHANGED <<runVars, earlyVars, clickVars, bulletVars, batchVars,
                   logVars, priceVars>>

AuthInit ==
    /\ RunIdle
    /\ EarlyIdle
    /\ ClickIdle /\ BulletIdle /\ BatchIdle
    /\ LogIdle /\ PriceIdle
    /\ access_token = 1
    /\ refresh_token \in BOOLEAN
    /\ session_timer = FALSE
    /\ app_running = TRUE
    /\ ticks = 0
    /\ is_valid = "None"
    /\ refresh_result = "none"
    /\ revoked_raised = FALSE
    /\ authPc = "start"

AuthNext == StartTimer \/ Validate \/ Refresh \/ Revalidate

AuthSpec == AuthInit /\ [][AuthNext]_vars

InFlight == {"nav", "gate_check", "gate_clear", "gate_wait", "gate_resumed",
             "sku", "probe", "scroll1", "viewmore", "scroll2", "debug_prompt",
             "extract",
             "competitor", "reconcile", "images", "save"}

(***************************************************************************)
(* A PageDriver call.  ok is the outcome chosen for the call: it can only  *)
(* succeed on an open session.  The monitor calledWhileAwaiting records a  *)
(* call issued between the detection of a challenge and the next set().    *)
(***************************************************************************)
DriverOk(ok) == ok /\ driverAlive

DriverCall == calledWhileAwaiting' = (calledWhileAwaiting \/ awaitingResume)

\* The monitor page_state: a navigation or a window scroll moves the page,
\* the challenge detection checks it, and a step that extracts from a page
\* moved since the last check is a read of an unchecked page.
AfterRead(state) == IF state = "moved" THEN "read_unchecked" ELSE state

\* An exception leaves the scraper and reaches the finally block of run().
Escape ==
    /\ exc' = TRUE
    /\ pc' = "finally"

(***************************************************************************)
(* Controller: MainWindow._on_run_scraper                                  *)
(***************************************************************************)
\* QThread.isRunning()
IsRunning(state) == state = "running"

\* The worker's variables as a newly constructed ScraperThread has them.
NewWorker ==
    /\ pc' = "init"
    /\ ret' = "none"
    /\ scraper' = FALSE
    /\ driverAlive' = FALSE
    /\ quitCalls' = 0
    /\ exc' = FALSE
    /\ scraping_completed' = FALSE
    /\ signals' = {}
    /\ targets' = 0
    /\ idx' = 0
    /\ started' = {}
    /\ saved' = {}
    /\ nCombos' = 0
    /\ comboIdx' = 0
    /\ stopRequested' = FALSE
    /\ stopTarget' = 0
    /\ awaitingResume' = FALSE
    /\ calledWhileAwaiting' = FALSE
    /\ gateEvals' = 0
    /\ captcha_handled' = FALSE
    /\ stages' = <<>>
    /\ search_failed' = FALSE
    /\ found_prices' = <<>>
    /\ data_stats' = <<>>
    /\ write_failed' = FALSE
    /\ page_state' = "checked"
    /\ stopPc' = "none"

RunScraper ==
    /\ ctl = "idle"
    /\ IF scraper_thread # 0 /\ IsRunning(thread)
          THEN UNCHANGED <<mode, source, scrape_type, thread, pc, ret,
                           resume_event, scraper, driverAlive, quitCalls,
                           exc, scraping_completed, signals, targets, idx,
                           started, saved, nCombos, comboIdx, stopRequested,
                           stopTarget, awaitingResume, calledWhileAwaiting,
                           gateEvals, captcha_handled, stages, dataVars,
                           page_state, scraper_thread,
                           scraper_resume_event, orphaned, stopPc>>
          ELSE /\ scraper_thread < MaxRuns
               /\ \E m \in Modes, s \in Sources, t \in ScrapeTypes :
                     /\ mode' = m
                     /\ source' = s
                     /\ scrape_type' = t
               /\ scraper_resume_event' = scraper_resume_event + 1
               /\ resume_event' = FALSE
               /\ scraper_thread' = scraper_thread + 1
               /\ thread' = "running"
               /\ NewWorker
               /\ orphaned' = (orphaned \/ driverAlive)
    /\ UNCHANGED ctl
    /\ UNCHANGED pureVars

(***************************************************************************)
(* Controller: MainWindow._on_resume_scraper                               *)
(***************************************************************************)
ResumeScraper ==
    /\ thread # "none"
    /\ ctl = "idle"
    /\ resume_event' = TRUE
    /\ awaitingResume' = FALSE
    /\ UNCHANGED <<mode, source, scrape_type, ctl, thread, pc, ret, scraper,
                   driverAlive, quitCalls, exc, scraping_completed, signals,
                   targets, idx, started, saved, nCombos, comboIdx,
                   stopRequested, stopTarget, calledWhileAwaiting, gateEvals,
                   captcha_handled>>
    /\ UNCHANGED pureVars
    /\ UNCHANGED dataVars
    /\ UNCHANGED stages
    /\ UNCHANGED page_state
    /\ UNCHANGED scraper_thread
    /\ UNCHANGED scraper_resume_event
    /\ UNCHANGED orphaned
    /\ UNCHANGED stopPc

\* The monitor stopPc: where a stop request finds the worker.
StopPosition(at) ==
    IF at \in {"gate_clear", "gate_wait", "prompt"} THEN at ELSE "other"

(***************************************************************************)
(* Controller: MainWindow._on_stop_scraper, up to its wait(2000):          *)
(* ScraperThread.stop() quits the driver when a scraper exists, then the   *)
(* resume event is set.                                                    *)
(***************************************************************************)
StopBegin ==
    /\ thread = "running"
    /\ ctl = "idle"
    /\ IF scraper
          THEN /\ quitCalls' = quitCalls + 1
               /\ driverAlive' = FALSE
          ELSE UNCHANGED <<quitCalls, driverAlive>>
    /\ resume_event' = TRUE
    /\ awaitingResume' = FALSE
    /\ stopRequested' = TRUE
    /\ stopTarget' = IF pc \in InFlight THEN idx ELSE 0
    /\ ctl' = "stopping"
    /\ UNCHANGED <<mode, source, scrape_type, thread, pc, ret, scraper, exc,
                   scraping_completed, signals, targets, idx, started, saved,
                   nCombos, comboIdx, calledWhileAwaiting, gateEvals,
                   captcha_handled>>
    /\ UNCHANGED pureVars
    /\ UNCHANGED dataVars
    /\ UNCHANGED stages
    /\ UNCHANGED page_state
    /\ UNCHANGED scraper_thread
    /\ UNCHANGED scraper_resume_event
    /\ UNCHANGED orphaned
    /\ stopPc' = StopPosition(pc)

\* wait(2000) returned True: the worker ended by itself.
StopJoined ==
    /\ ctl = "stopping"
    /\ thread = "finished"
    /\ ctl' = "idle"
    /\ UNCHANGED <<mode, source, scrape_type, thread, pc, ret, resume_event, scraper,
                   driverAlive, quitCalls, exc, scraping_completed, signals,
                   targets, idx, started, saved, nCombos, comboIdx,
                   stopRequested, stopTarget, awaitingResume,
                   calledWhileAwaiting, gateEvals,
                   captcha_handled>>
    /\ UNCHANGED pureVars
    /\ UNCHANGED dataVars
    /\ UNCHANGED stages
    /\ UNCHANGED page_state
    /\ UNCHANGED scraper_thread
    /\ UNCHANGED scraper_resume_event
    /\ UNCHANGED orphaned
    /\ UNCHANGED stopPc

\* wait(2000) timed out: the thread is terminated.
StopTerminate ==
    /\ ctl = "stopping"
    /\ thread = "running"
    /\ thread' = "terminated"
    /\ ctl' = "idle"
    /\ UNCHANGED <<mode, source, scrape_type, pc, ret, resume_event, scraper,
                   driverAlive, quitCalls, exc, scraping_completed, signals,
                   targets, idx, started, saved, nCombos, comboIdx,
                   stopRequested, stopTarget, awaitingResume,
                   calledWhileAwaiting, gateEvals,
                   captcha_handled>>
    /\ UNCHANGED pureVars
    /\ UNCHANGED dataVars
    /\ UNCHANGED stages
    /\ UNCHANGED page_state
    /\ UNCHANGED scraper_thread
    /\ UNCHANGED scraper_resume_event
    /\ UNCHANGED orphaned
    /\ UNCHANGED stopPc


(***************************************************************************)
(* Worker: ScraperThread.run and the scrapers it drives.  The worker never *)
(* writes the controller's variables.                                      *)
(***************************************************************************)
ctlVars == <<mode, source, scrape_type, ctl, stopRequested, stopTarget>>

IsAli == source = "aliexpress"

\* Where run() continues once scrape_product_details has returned.
AfterTarget == IF scrape_type = "single" THEN "completed" ELSE "delay"

\* resume_event.clear() before the blocking wait
ClearEventSkipped(e) == e

ClearEvent(e) == FALSE

\* What follows the wait of the gate: no further evaluation of the
\* indicators, a page-load delay, and the return to the caller.
AfterResumeRecheck(evals) == evals + 1

AfterResume(evals) == evals

\* run(): the scraper is constructed (the driver session is created), then
\* the single target or the search-results batch is dispatched.
WorkerInit ==
    /\ thread = "running"
    /\ pc = "init"
    /\ \E ok \in BOOLEAN :
          IF ok
             THEN /\ scraper' = TRUE
                  /\ driverAlive' = TRUE
                  /\ pc' = IF scrape_type = "single" THEN "nav" ELSE "prompt"
                  /\ idx' = IF scrape_type = "single" THEN 1 ELSE idx
                  /\ targets' = IF scrape_type = "single" THEN 1 ELSE targets
                  /\ UNCHANGED exc
             ELSE /\ Escape
                  /\ UNCHANGED <<scraper, driverAlive, idx, targets>>
    /\ UNCHANGED <<ctlVars, pureVars>>
    /\ UNCHANGED dataVars
    /\ UNCHANGED <<thread, ret, resume_event, quitCalls, scraping_completed,
                   signals, started, saved, nCombos, comboIdx, awaitingResume,
                   calledWhileAwaiting, gateEvals, captcha_handled>>
    /\ UNCHANGED stages
    /\ UNCHANGED page_state
    /\ UNCHANGED scraper_thread
    /\ UNCHANGED scraper_resume_event
    /\ UNCHANGED orphaned
    /\ UNCHANGED stopPc

\* scrape_search_results: the initial prompt waits on the resume event
\* (without clearing it).
Prompt ==
    /\ thread = "running"
    /\ pc = "prompt"
    /\ resume_event
    /\ pc' = "list_scroll"
    /\ UNCHANGED <<ctlVars, pureVars>>
    /\ UNCHANGED dataVars
    /\ UNCHANGED <<thread, ret, resume_event, scraper, driverAlive, quitCalls,
                   exc, scraping_completed, signals, targets, idx, started,
                   saved, nCombos, comboIdx, awaitingResume,
                   calledWhileAwaiting, gateEvals, captcha_handled>>
    /\ UNCHANGED stages
    /\ UNCHANGED page_state
    /\ UNCHANGED scraper_thread
    /\ UNCHANGED scraper_resume_event
    /\ UNCHANGED orphaned
    /\ UNCHANGED stopPc

\* scrape_search_results: the scroll of the results page, outside any try.
ListScroll ==
    /\ thread = "running"
    /\ pc = "list_scroll"
    /\ DriverCall
    /\ \E ok \in BOOLEAN :
          IF DriverOk(ok)
             THEN /\ pc' = IF IsAli THEN "gate_check" ELSE "discover"
                  /\ ret' = IF IsAli THEN "discover" ELSE ret
                  /\ UNCHANGED exc
             ELSE /\ Escape
                  /\ UNCHANGED ret
    /\ UNCHANGED <<ctlVars, pureVars>>
    /\ UNCHANGED dataVars
    /\ UNCHANGED <<thread, resume_event, scraper, driverAlive, quitCalls,
                   scraping_completed, signals, targets, idx, started, saved,
                   nCombos, comboIdx, awaitingResume, gateEvals,
                   captcha_handled>>
    /\ UNCHANGED stages
    /\ page_state' = "moved"
    /\ UNCHANGED scraper_thread
    /\ UNCHANGED scraper_resume_event
    /\ UNCHANGED orphaned
    /\ UNCHANGED stopPc

\* scrape_search_results: the links are collected inside try/except and cut
\* to MAX_PRODUCTS_TO_SCRAPE; a dead session yields no link.
Discover ==
    /\ thread = "running"
    /\ pc = "discover"
    /\ DriverCall
    /\ \E n \in 0..MaxTargets :
          /\ targets' = IF driverAlive THEN n ELSE 0
          /\ idx' = IF targets' > 0 THEN 1 ELSE idx
          /\ pc' = IF targets' > 0 THEN "nav" ELSE "completed"
    /\ UNCHANGED <<ctlVars, pureVars>>
    /\ UNCHANGED dataVars
    /\ UNCHANGED <<thread, ret, resume_event, scraper, driverAlive, quitCalls,
                   exc, scraping_completed, signals, started, saved, nCombos,
                   comboIdx, awaitingResume, gateEvals, captcha_handled>>
    /\ UNCHANGED stages
    /\ page_state' = AfterRead(page_state)
    /\ UNCHANGED scraper_thread
    /\ UNCHANGED scraper_resume_event
    /\ UNCHANGED orphaned
    /\ UNCHANGED stopPc

\* scrape_product_details: driver.get(url), outside any try.
Nav ==
    /\ thread = "running"
    /\ pc = "nav"
    /\ DriverCall
    /\ started' = started \cup {idx}
    /\ \E ok \in BOOLEAN :
          IF DriverOk(ok)
             THEN /\ pc' = "gate_check"
                  /\ ret' = IF IsAli THEN "sku" ELSE "scroll1"
                  /\ UNCHANGED exc
             ELSE /\ Escape
                  /\ UNCHANGED ret
    /\ UNCHANGED <<ctlVars, pureVars>>
    /\ search_failed' = FALSE
    /\ found_prices' = <<>>
    /\ data_stats' = <<>>
    /\ write_failed' = FALSE
    /\ UNCHANGED <<thread, resume_event, scraper, driverAlive, quitCalls,
                   scraping_completed, signals, targets, idx, saved, nCombos,
                   comboIdx, awaitingResume, gateEvals, captcha_handled>>
    /\ stages' = <<"NAVIGATE">>
    /\ page_state' = "moved"
    /\ UNCHANGED scraper_thread
    /\ UNCHANGED scraper_resume_event
    /\ UNCHANGED orphaned
    /\ UNCHANGED stopPc

\* The challenge detection.  AliExpress swallows every driver failure of the
\* detection; Amazon reads driver.page_source outside any try.
GateCheck ==
    /\ thread = "running"
    /\ pc = "gate_check"
    /\ DriverCall
    /\ \E ok \in BOOLEAN, found \in BOOLEAN :
          IF ~DriverOk(ok) /\ ~IsAli
             THEN /\ Escape
                  /\ UNCHANGED <<awaitingResume, gateEvals, captcha_handled>>
             ELSE /\ gateEvals' = 1
                  /\ captcha_handled' = FALSE
                  /\ awaitingResume' = (DriverOk(ok) /\ found)
                  /\ pc' = IF DriverOk(ok) /\ found THEN "gate_clear" ELSE ret
                  /\ UNCHANGED exc
    /\ UNCHANGED <<ctlVars, pureVars>>
    /\ UNCHANGED dataVars
    /\ UNCHANGED <<thread, ret, resume_event, scraper, driverAlive, quitCalls,
                   scraping_completed, signals, targets, idx, started, saved,
                   nCombos, comboIdx>>
    /\ stages' = Append(stages, "CAPTCHA_GATE")
    /\ page_state' = "checked"
    /\ UNCHANGED scraper_thread
    /\ UNCHANGED scraper_resume_event
    /\ UNCHANGED orphaned
    /\ UNCHANGED stopPc

GateClear ==
    /\ thread = "running"
    /\ pc = "gate_clear"
    /\ resume_event' = ClearEvent(resume_event)
    /\ pc' = "gate_wait"
    /\ UNCHANGED <<ctlVars, pureVars>>
    /\ UNCHANGED dataVars
    /\ UNCHANGED <<thread, ret, scraper, driverAlive, quitCalls, exc,
                   scraping_completed, signals, targets, idx, started, saved,
                   nCombos, comboIdx, awaitingResume, calledWhileAwaiting,
                   gateEvals, captcha_handled>>
    /\ UNCHANGED stages
    /\ UNCHANGED page_state
    /\ UNCHANGED scraper_thread
    /\ UNCHANGED scraper_resume_event
    /\ UNCHANGED orphaned
    /\ UNCHANGED stopPc

\* resume_event.wait(): blocks until the flag is set.
WaitReturnsAtOnce(e) == TRUE

WaitReturns(e) == e

GateWait ==
    /\ thread = "running"
    /\ pc = "gate_wait"
    /\ WaitReturns(resume_event)
    /\ pc' = "gate_resumed"
    /\ UNCHANGED <<ctlVars, pureVars>>
    /\ UNCHANGED dataVars
    /\ UNCHANGED <<thread, ret, resume_event, scraper, driverAlive, quitCalls,
                   exc, scraping_completed, signals, targets, idx, started,
                   saved, nCombos, comboIdx, awaitingResume,
                   calledWhileAwaiting, gateEvals, captcha_handled>>
    /\ UNCHANGED stages
    /\ UNCHANGED page_state
    /\ UNCHANGED scraper_thread
    /\ UNCHANGED scraper_resume_event
    /\ UNCHANGED orphaned
    /\ UNCHANGED stopPc

GateResumed ==
    /\ thread = "running"
    /\ pc = "gate_resumed"
    /\ gateEvals' = AfterResume(gateEvals)
    /\ captcha_handled' = TRUE
    /\ pc' = ret
    /\ UNCHANGED <<ctlVars, pureVars>>
    /\ UNCHANGED dataVars
    /\ UNCHANGED <<thread, ret, resume_event, scraper, driverAlive, quitCalls,
                   exc, scraping_completed, signals, targets, idx, started,
                   saved, nCombos, comboIdx, awaitingResume,
                   calledWhileAwaiting>>
    /\ UNCHANGED stages
    /\ UNCHANGED page_state
    /\ UNCHANGED scraper_thread
    /\ UNCHANGED scraper_resume_event
    /\ UNCHANGED orphaned
    /\ UNCHANGED stopPc

(***************************************************************************)
(* AliExpress: SKU discovery and enumeration, wholly inside try/except.    *)
(* n is the number of combinations the page yields.                        *)
(***************************************************************************)
Sku ==
    /\ thread = "running"
    /\ pc = "sku"
    /\ DriverCall
    /\ \E ok \in BOOLEAN, n \in 0..MaxCombos :
          /\ nCombos' = IF DriverOk(ok) THEN n ELSE 0
          /\ comboIdx' = 1
          /\ pc' = IF nCombos' > 0 THEN "probe" ELSE "scroll1"
    /\ UNCHANGED <<ctlVars, pureVars>>
    /\ UNCHANGED dataVars
    /\ UNCHANGED <<thread, ret, resume_event, scraper, driverAlive, quitCalls,
                   exc, scraping_completed, signals, targets, idx, started,
                   saved, awaitingResume, gateEvals, captcha_handled>>
    /\ stages' = Append(stages, "ENUMERATE_VARIANTS")
    /\ page_state' = AfterRead(page_state)
    /\ UNCHANGED scraper_thread
    /\ UNCHANGED scraper_resume_event
    /\ UNCHANGED orphaned
    /\ UNCHANGED stopPc

\* _extract_sku_prices: one iteration of the loop over the combinations;
\* every driver failure inside it is swallowed.
Probe ==
    /\ thread = "running"
    /\ pc = "probe"
    /\ DriverCall
    /\ comboIdx' = comboIdx + 1
    /\ pc' = IF comboIdx < nCombos THEN "probe" ELSE "scroll1"
    /\ UNCHANGED <<ctlVars, pureVars>>
    /\ UNCHANGED dataVars
    /\ UNCHANGED <<thread, ret, resume_event, scraper, driverAlive, quitCalls,
                   exc, scraping_completed, signals, targets, idx, started,
                   saved, nCombos, awaitingResume, gateEvals, captcha_handled>>
    /\ stages' = Append(stages, "PROBE_PRICES")
    /\ page_state' = AfterRead(page_state)
    /\ UNCHANGED scraper_thread
    /\ UNCHANGED scraper_resume_event
    /\ UNCHANGED orphaned
    /\ UNCHANGED stopPc

\* The first scroll of the product page, outside any try.  AliExpress runs
\* the gate again after it; Amazon goes on to the extraction.
Scroll1 ==
    /\ thread = "running"
    /\ pc = "scroll1"
    /\ DriverCall
    /\ \E ok \in BOOLEAN :
          IF DriverOk(ok)
             THEN /\ pc' = IF IsAli THEN "gate_check" ELSE "extract"
                  /\ ret' = IF IsAli THEN "viewmore" ELSE ret
                  /\ UNCHANGED exc
             ELSE /\ Escape
                  /\ UNCHANGED ret
    /\ UNCHANGED <<ctlVars, pureVars>>
    /\ UNCHANGED dataVars
    /\ UNCHANGED <<thread, resume_event, scraper, driverAlive, quitCalls,
                   scraping_completed, signals, targets, idx, started, saved,
                   nCombos, comboIdx, awaitingResume, gateEvals,
                   captcha_handled>>
    /\ UNCHANGED stages
    /\ page_state' = "moved"
    /\ UNCHANGED scraper_thread
    /\ UNCHANGED scraper_resume_event
    /\ UNCHANGED orphaned
    /\ UNCHANGED stopPc

\* AliExpress: the "View More" button, inside try/except.
ViewMore ==
    /\ thread = "running"
    /\ pc = "viewmore"
    /\ DriverCall
    /\ pc' = "scroll2"
    /\ UNCHANGED <<ctlVars, pureVars>>
    /\ UNCHANGED dataVars
    /\ UNCHANGED <<thread, ret, resume_event, scraper, driverAlive, quitCalls,
                   exc, scraping_completed, signals, targets, idx, started,
                   saved, nCombos, comboIdx, awaitingResume, gateEvals,
                   captcha_handled>>
    /\ UNCHANGED stages
    /\ UNCHANGED page_state
    /\ UNCHANGED scraper_thread
    /\ UNCHANGED scraper_resume_event
    /\ UNCHANGED orphaned
    /\ UNCHANGED stopPc

\* AliExpress: the second scroll, outside any try.
Scroll2 ==
    /\ thread = "running"
    /\ pc = "scroll2"
    /\ DriverCall
    /\ \E ok \in BOOLEAN :
          IF DriverOk(ok)
             THEN /\ pc' = "debug_prompt"
                  /\ UNCHANGED exc
             ELSE Escape
    /\ UNCHANGED <<ctlVars, pureVars>>
    /\ UNCHANGED dataVars
    /\ UNCHANGED <<thread, ret, resume_event, scraper, driverAlive, quitCalls,
                   scraping_completed, signals, targets, idx, started, saved,
                   nCombos, comboIdx, awaitingResume, gateEvals,
                   captcha_handled>>
    /\ UNCHANGED stages
    /\ page_state' = "moved"
    /\ UNCHANGED scraper_thread
    /\ UNCHANGED scraper_resume_event
    /\ UNCHANGED orphaned
    /\ UNCHANGED stopPc

\* AliExpress, outside any try: in debug mode the operator is asked on the
\* console whether to test selectors; input() returns the answer (the
\* selector session of a "y" ends when the operator quits it) or raises
\* EOFError on a closed standard input.  The other modes skip the question.
StdinOutcomes == {"n", "y", "eof"}

DebugPrompt ==
    /\ thread = "running"
    /\ pc = "debug_prompt"
    /\ \E answer \in StdinOutcomes :
          IF mode = "debug" /\ answer = "eof"
             THEN Escape
             ELSE /\ pc' = "extract"
                  /\ UNCHANGED exc
    /\ UNCHANGED <<ctlVars, pureVars>>
    /\ UNCHANGED dataVars
    /\ UNCHANGED <<thread, ret, resume_event, scraper, driverAlive, quitCalls,
                   scraping_completed, signals, targets, idx, started, saved,
                   nCombos, comboIdx, awaitingResume, calledWhileAwaiting,
                   gateEvals, captcha_handled>>
    /\ UNCHANGED stages
    /\ UNCHANGED page_state
    /\ UNCHANGED scraper_thread
    /\ UNCHANGED scraper_resume_event
    /\ UNCHANGED orphaned
    /\ UNCHANGED stopPc

\* The stages run by the field extraction: AliExpress has enumerated the
\* variants before; Amazon reads them after title, prices and gallery.
ExtractStagesVariantsFirst == <<"ENUMERATE_VARIANTS", "EXTRACT_FIELDS">>

ExtractStages ==
    IF IsAli THEN <<"EXTRACT_FIELDS">>
    ELSE <<"EXTRACT_FIELDS", "ENUMERATE_VARIANTS">>

\* Field extraction inside the big try of scrape_product_details: driver
\* failures resolve to defaults; any other failure (unexpected) is caught by
\* the outer handler, which ends the target without a record.
Extract ==
    /\ thread = "running"
    /\ pc = "extract"
    /\ DriverCall
    /\ \E unexpected \in BOOLEAN :
          pc' = IF unexpected THEN AfterTarget
                ELSE IF IsAli THEN "competitor" ELSE "reconcile"
    /\ UNCHANGED <<ctlVars, pureVars>>
    /\ UNCHANGED dataVars
    /\ UNCHANGED <<thread, ret, resume_event, scraper, driverAlive, quitCalls,
                   exc, scraping_completed, signals, targets, idx, started,
                   saved, nCombos, comboIdx, awaitingResume, gateEvals,
                   captcha_handled>>
    /\ stages' = stages \o ExtractStages
    /\ page_state' = AfterRead(page_state)
    /\ UNCHANGED scraper_thread
    /\ UNCHANGED scraper_resume_event
    /\ UNCHANGED orphaned
    /\ UNCHANGED stopPc

\* The mappings a search that ran to its end can return.
CompetitorResults ==
    { <<>>,
      QuoteMapping(<< <<"A">> >>, << <<"$", "2">> >>),
      QuoteMapping(<< <<"A">> >>, << NA >>) }

\* AliExpress: search_amazon_prices_with_driver, which catches everything.
\* It navigates to the search page and reads the result rows at once.
\* A search that raises (driver.get, or the lookup of the result rows)
\* returns the empty mapping; the search is skipped on an empty title.
FailedSearchPartial(results) == results

FailedSearch(results) == <<>>

Competitor ==
    /\ thread = "running"
    /\ pc = "competitor"
    /\ DriverCall
    /\ \E ok \in BOOLEAN, results \in CompetitorResults :
          /\ search_failed' = ~DriverOk(ok)
          /\ found_prices' = IF DriverOk(ok) THEN results
                              ELSE FailedSearch(results)
          /\ page_state' = IF DriverOk(ok) THEN AfterRead("moved") ELSE "moved"
    /\ pc' = "reconcile"
    /\ UNCHANGED <<ctlVars, pureVars>>
    /\ UNCHANGED <<data_stats, write_failed>>
    /\ UNCHANGED <<thread, ret, resume_event, scraper, driverAlive, quitCalls,
                   exc, scraping_completed, signals, targets, idx, started,
                   saved, nCombos, comboIdx, awaitingResume, gateEvals,
                   captcha_handled>>
    /\ stages' = Append(stages, "COLLECT_COMPETITOR_QUOTES")
    /\ UNCHANGED scraper_thread
    /\ UNCHANGED scraper_resume_event
    /\ UNCHANGED orphaned
    /\ UNCHANGED stopPc

\* Suggested-content request and price statistics: no driver call.
Reconcile ==
    /\ thread = "running"
    /\ pc = "reconcile"
    /\ IF IsAli
          THEN \E current_price_text \in OwnPrices :
                  data_stats' \in calculate_amazon_price_stats(
                                     found_prices, current_price_text)
          ELSE UNCHANGED data_stats
    /\ pc' = "images"
    /\ UNCHANGED <<ctlVars, pureVars>>
    /\ UNCHANGED <<search_failed, found_prices, write_failed>>
    /\ UNCHANGED <<thread, ret, resume_event, scraper, driverAlive, quitCalls,
                   exc, scraping_completed, signals, targets, idx, started,
                   saved, nCombos, comboIdx, awaitingResume,
                   calledWhileAwaiting, gateEvals, captcha_handled>>
    /\ stages' = IF IsAli THEN Append(stages, "RECONCILE") ELSE stages
    /\ UNCHANGED page_state
    /\ UNCHANGED scraper_thread
    /\ UNCHANGED scraper_resume_event
    /\ UNCHANGED orphaned
    /\ UNCHANGED stopPc

\* Image download and processing: no driver call.
Images ==
    /\ thread = "running"
    /\ pc = "images"
    /\ pc' = "save"
    /\ UNCHANGED <<ctlVars, pureVars>>
    /\ UNCHANGED dataVars
    /\ UNCHANGED <<thread, ret, resume_event, scraper, driverAlive, quitCalls,
                   exc, scraping_completed, signals, targets, idx, started,
                   saved, nCombos, comboIdx, awaitingResume,
                   calledWhileAwaiting, gateEvals, captcha_handled>>
    /\ UNCHANGED stages
    /\ UNCHANGED page_state
    /\ UNCHANGED scraper_thread
    /\ UNCHANGED scraper_resume_event
    /\ UNCHANGED orphaned
    /\ UNCHANGED stopPc

\* json.dump of the record; a write failure is reported and swallowed.
Save ==
    /\ thread = "running"
    /\ pc = "save"
    /\ \E ok \in BOOLEAN :
          /\ saved' = IF ok THEN saved \cup {idx} ELSE saved
          /\ stages' = IF ok THEN Append(stages, "EMIT_RECORD") ELSE stages
          /\ write_failed' = ~ok
    /\ pc' = AfterTarget
    /\ UNCHANGED <<ctlVars, pureVars>>
    /\ UNCHANGED <<search_failed, found_prices, data_stats>>
    /\ UNCHANGED <<thread, ret, resume_event, scraper, driverAlive, quitCalls,
                   exc, scraping_completed, signals, targets, idx, started,
                   nCombos, comboIdx, awaitingResume, calledWhileAwaiting,
                   gateEvals, captcha_handled>>
    /\ UNCHANGED page_state
    /\ UNCHANGED scraper_thread
    /\ UNCHANGED scraper_resume_event
    /\ UNCHANGED orphaned
    /\ UNCHANGED stopPc

\* scrape_search_results: the delay between products, then the next link.
Delay ==
    /\ thread = "running"
    /\ pc = "delay"
    /\ idx' = IF idx < targets THEN idx + 1 ELSE idx
    /\ pc' = IF idx < targets THEN "nav" ELSE "completed"
    /\ UNCHANGED <<ctlVars, pureVars>>
    /\ UNCHANGED dataVars
    /\ UNCHANGED <<thread, ret, resume_event, scraper, driverAlive, quitCalls,
                   exc, scraping_completed, signals, targets, started, saved,
                   nCombos, comboIdx, awaitingResume, calledWhileAwaiting,
                   gateEvals, captcha_handled>>
    /\ UNCHANGED stages
    /\ UNCHANGED page_state
    /\ UNCHANGED scraper_thread
    /\ UNCHANGED scraper_resume_event
    /\ UNCHANGED orphaned
    /\ UNCHANGED stopPc

\* run(): the scraper call returned.
Completed ==
    /\ thread = "running"
    /\ pc = "completed"
    /\ scraping_completed' = TRUE
    /\ pc' = "finally"
    /\ UNCHANGED <<ctlVars, pureVars>>
    /\ UNCHANGED dataVars
    /\ UNCHANGED <<thread, ret, resume_event, scraper, driverAlive, quitCalls,
                   exc, signals, targets, idx, started, saved, nCombos,
                   comboIdx, awaitingResume, calledWhileAwaiting, gateEvals,
                   captcha_handled>>
    /\ UNCHANGED stages
    /\ UNCHANGED page_state
    /\ UNCHANGED scraper_thread
    /\ UNCHANGED scraper_resume_event
    /\ UNCHANGED orphaned
    /\ UNCHANGED stopPc

\* run(): an exception that reached the finally block goes on to the except
\* handler once the block has run; otherwise the code after the block runs.
AfterFinallySwallowed(raised) == "emit"

AfterFinally(raised) == IF raised THEN "except" ELSE "emit"

\* run(): the finally block quits the driver of an existing scraper.
Finally ==
    /\ thread = "running"
    /\ pc = "finally"
    /\ quitCalls' = IF scraper THEN quitCalls + 1 ELSE quitCalls
    /\ driverAlive' = FALSE
    /\ pc' = AfterFinally(exc)
    /\ UNCHANGED <<ctlVars, pureVars>>
    /\ UNCHANGED dataVars
    /\ UNCHANGED <<thread, ret, resume_event, scraper, exc, scraping_completed,
                   signals, targets, idx, started, saved, nCombos, comboIdx,
                   awaitingResume, calledWhileAwaiting, gateEvals,
                   captcha_handled>>
    /\ UNCHANGED stages
    /\ UNCHANGED page_state
    /\ UNCHANGED scraper_thread
    /\ UNCHANGED scraper_resume_event
    /\ UNCHANGED orphaned
    /\ UNCHANGED stopPc

\* run(): finished_successfully is emitted after the cleanup.
Emit ==
    /\ thread = "running"
    /\ pc = "emit"
    /\ signals' = IF scraping_completed
                     THEN signals \cup {"finished_successfully"}
                     ELSE signals
    /\ pc' = "done"
    /\ thread' = "finished"
    /\ UNCHANGED <<ctlVars, pureVars>>
    /\ UNCHANGED dataVars
    /\ UNCHANGED <<ret, resume_event, scraper, driverAlive, quitCalls, exc,
                   scraping_completed, targets, idx, started, saved, nCombos,
                   comboIdx, awaitingResume, calledWhileAwaiting, gateEvals,
                   captcha_handled>>
    /\ UNCHANGED stages
    /\ UNCHANGED page_state
    /\ UNCHANGED scraper_thread
    /\ UNCHANGED scraper_resume_event
    /\ UNCHANGED orphaned
    /\ UNCHANGED stopPc

\* run(): the except handler emits error_occurred and quits the driver
\* once more.
Except ==
    /\ thread = "running"
    /\ pc = "except"
    /\ signals' = signals \cup {"error_occurred"}
    /\ quitCalls' = IF scraper THEN quitCalls + 1 ELSE quitCalls
    /\ pc' = "done"
    /\ thread' = "finished"
    /\ UNCHANGED <<ctlVars, pureVars>>
    /\ UNCHANGED dataVars
    /\ UNCHANGED <<ret, resume_event, scraper, driverAlive, exc,
                   scraping_completed, targets, idx, started, saved, nCombos,
                   comboIdx, awaitingResume, calledWhileAwaiting, gateEvals,
                   captcha_handled>>
    /\ UNCHANGED stages
    /\ UNCHANGED page_state
    /\ UNCHANGED scraper_thread
    /\ UNCHANGED scraper_resume_event
    /\ UNCHANGED orphaned
    /\ UNCHANGED stopPc

(***************************************************************************)
(* The run machine.                                                        *)
(***************************************************************************)
Init == RunIdle /\ PureIdle

Next ==
    \/ RunScraper
    \/ ResumeScraper
    \/ StopBegin
    \/ StopJoined
    \/ StopTerminate
    \/ WorkerInit
    \/ Prompt
    \/ ListScroll
    \/ Discover
    \/ Nav
    \/ GateCheck
    \/ GateClear
    \/ GateWait
    \/ GateResumed
    \/ Sku
    \/ Probe
    \/ Scroll1
    \/ ViewMore
    \/ Scroll2
    \/ DebugPrompt
    \/ Extract
    \/ Competitor
    \/ Reconcile
    \/ Images
    \/ Save
    \/ Delay
    \/ Completed
    \/ Finally
    \/ Emit
    \/ Except

Spec == Init /\ [][Next]_vars

\* The steps of the worker thread.  The thread runs whenever it can: a
\* step of run() that stays enabled is eventually taken; nothing is assumed
\* of the operator.
Worker ==
    \/ WorkerInit \/ Prompt \/ ListScroll \/ Discover \/ Nav \/ GateCheck
    \/ GateClear \/ GateWait \/ GateResumed \/ Sku \/ Probe \/ Scroll1
    \/ ViewMore \/ Scroll2 \/ DebugPrompt \/ Extract \/ Competitor \/ Reconcile \/ Images
    \/ Save \/ Delay \/ Completed \/ Finally \/ Emit \/ Except

LiveSpec == Init /\ [][Next]_vars /\ WF_vars(Worker)

(***************************************************************************)
(* Properties of the run machine.                                          *)
(***************************************************************************)

\* C1 (as claimed): the target that was in flight when the stop request
\* arrived is never persisted.
C1_NoRecordAfterStop == stopTarget # 0 => stopTarget \notin saved

\* C2 (as claimed): a batch run that ends without a stop request has entered
\* the pipeline of every selected target, whatever failed on the way.
C2_FailureAbortsOnlyTarget ==
    (pc = "done" /\ ~stopRequested /\ scrape_type = "search")
        => started = 1..targets

\* C3: between the detection of a challenge and the next set() of the resume
\* event, the worker issues no driver call.
C3_NoDriverCallWhileBlocked == ~calledWhileAwaiting

\* C3 witness: the worker is blocked in the gate's wait, no signal issued yet.
C3_Witness == awaitingResume /\ pc = "gate_wait" /\ ~resume_event

C5_ClosedExactlyOnce ==
    (thread \in {"finished", "terminated"} /\ scraper) => quitCalls = 1

\* The stages of the target in flight without the gate, and the gate's
\* place right after the navigation.
CoreStages == SelectSeq(stages, LAMBDA st : st # "CAPTCHA_GATE")

GateFollowsNavigate == Len(stages) >= 2 => stages[2] = "CAPTCHA_GATE"

InOrder(log, rank(_)) ==
    \A i, j \in 1..Len(log) : i < j => rank(log[i]) <= rank(log[j])

ClaimedRank(st) ==
    CASE st = "NAVIGATE" -> 1 [] st = "EXTRACT_FIELDS" -> 3
      [] st = "ENUMERATE_VARIANTS" -> 4 [] st = "PROBE_PRICES" -> 5
      [] st = "COLLECT_COMPETITOR_QUOTES" -> 6 [] st = "RECONCILE" -> 7
      [] st = "EMIT_RECORD" -> 8

AliExpressRank(st) ==
    CASE st = "NAVIGATE" -> 1 [] st = "ENUMERATE_VARIANTS" -> 3
      [] st = "PROBE_PRICES" -> 4 [] st = "EXTRACT_FIELDS" -> 5
      [] st = "COLLECT_COMPETITOR_QUOTES" -> 6 [] st = "RECONCILE" -> 7
      [] st = "EMIT_RECORD" -> 8

ProbeIterationStarts == pc = "probe" /\ comboIdx' = comboIdx + 1

TargetIterationStarts == pc = "delay" /\ idx' = idx + 1

\* C17 (as claimed): once a stop request has been issued, the worker begins
\* no further combination in the price-probe loop and no further target in
\* the per-target loop.
C17_NoNewIterationAfterStop ==
    [][stopRequested => ~ProbeIterationStarts /\ ~TargetIterationStarts]_vars

\* The worker is inside the blocking part of the gate: the challenge was
\* detected and announced, and the wait has not returned.
InGate == thread = "running" /\ pc \in {"gate_clear", "gate_wait"}

\* C18 (as claimed): whenever a challenge has been detected and announced,
\* a resume issued at any time after the announcement eventually returns
\* the worker to the pipeline, whatever the interleaving of the resume
\* signal with the worker's steps.
C18_ResumeEventuallyReleases ==
    (InGate /\ ~awaitingResume) ~> ~InGate

\* C19 (as claimed): the challenge detection never raises; whatever the
\* driver does during the detection, the check returns and the pipeline
\* continues.
C19_DetectionNeverRaises ==
    [][pc = "gate_check" => (exc' = exc /\ pc' # "finally")]_vars

\* C20: the resume signal is a single slot.  Signals issued before a
\* challenge is detected are not kept for it: the wait of a gate returns
\* only once a resume (or stop) signal was issued after that detection.
C20_SingleSlot ==
    /\ pc = "gate_resumed" => ~awaitingResume
    /\ (pc = "gate_wait" /\ awaitingResume) => ~resume_event

\* C20 witness: in a search run the operator's resume let the worker past
\* the initial prompt (several resumes coalesce into the one flag); a
\* challenge detected afterwards blocks the worker all the same.
C20_Witness ==
    /\ scrape_type = "search"
    /\ IsAli
    /\ pc = "gate_wait"
    /\ awaitingResume
    /\ ~resume_event
    /\ ~stopRequested

\* C21: the mode is non-interfering.  A silent or detailed run goes from the
\* last scroll straight on to the field extraction; runs that differ only
\* in mode must take the same step there, so in every mode the worker leaves
\* that position for the extraction and raises nothing.
C21_ModeNonInterfering ==
    [][(pc = "debug_prompt" /\ pc' # pc) => (pc' = "extract" /\ exc' = exc)]_vars

\* C23: a competitor search that raises is contained: the quotes of the
\* product are the empty mapping, no exception propagates, the price
\* statistics computed afterwards are "N/A", and once the pipeline of the
\* target is through (and the next target not yet chosen) its record is on
\* disk unless the write itself failed.
C23_SearchFailureContained ==
    search_failed =>
        /\ found_prices = <<>>
        /\ ~exc
        /\ pc # "reconcile" =>
              /\ data_stats.amazon_avg_price = NA
              /\ data_stats.amazon_min_price = NA
        /\ pc \notin {"reconcile", "images", "save", "nav"} =>
              (idx \in saved \/ write_failed)

\* C23 witness: the search raised on an open session, nobody stopped the
\* run, and the record of the target was written with "N/A" statistics.
C23_Witness ==
    /\ search_failed
    /\ ~stopRequested
    /\ idx \in saved
    /\ data_stats # <<>>
    /\ data_stats.amazon_avg_price = NA
    /\ stages[Len(stages)] = "EMIT_RECORD"

\* C32: after a navigation of the worker or a window scroll, the challenge
\* detection runs before the next step that extracts from the page.
C32_GateBeforeNextRead == page_state # "read_unchecked"


\* C35 (worker and event): while a worker is running no step replaces the
\* ScraperThread or the Event held by the controller; a Run request made
\* then only shows the warning.
C35_RunWhileRunningRejected ==
    [][thread = "running" =>
          /\ scraper_thread' = scraper_thread
          /\ scraper_resume_event' = scraper_resume_event]_vars

\* C35 (as claimed): at most one worker and hence at most one driver session
\* at any time: no session of an earlier worker is open together with the
\* session of the current one.
C35_OneWorkerOneSession == ~(orphaned /\ driverAlive)


\* C36: finished_successfully and error_occurred are never both emitted, a
\* run that has ended has emitted exactly one of them, and
\* finished_successfully is emitted only with the session closed by the
\* finally block and with no exception out of the scraper.
RunSignals == signals \cap {"finished_successfully", "error_occurred"}

StoppedWhileBlocked == stopPc \in {"gate_clear", "gate_wait", "prompt"}

\* The worker sits in the wait of the gate with the event cleared.
StillWaiting == thread = "running" /\ pc = "gate_wait" /\ ~resume_event

\* C38 (as claimed): such a stop request releases the wait, and from then on
\* the session is closed, so that no driver call succeeds, and no record is
\* written.
C38_StopWhileBlockedReleases ==
    /\ [](StoppedWhileBlocked => ~StillWaiting)
    /\ [][(StoppedWhileBlocked /\ scraper_thread' = scraper_thread) =>
             (~driverAlive' /\ saved' = saved)]_vars

\* The same for a stop request that finds the worker inside a wait.
StoppedInWait == stopPc \in {"gate_wait", "prompt"}

C38_StopInWaitReleases ==
    /\ [](StoppedInWait => ~StillWaiting)
    /\ [][(StoppedInWait /\ scraper_thread' = scraper_thread) =>
             (~driverAlive' /\ saved' = saved)]_vars

=============================================================================
